---- MODULE Spec2Model ----
(***************************************************************************)
(* A model of micro-device-plugin: the allocator (device -> pod bindings), *)
(* the Allocate request handler, the ListAndWatch loop with its health     *)
(* channel, the resource recycler and the discovery cache of the device    *)
(* managers.                                                               *)
(***************************************************************************)
EXTENDS Integers, Sequences, FiniteSets, TLC

\* ------------------------------------------------------------------ bounds

\* Number of distinct device IDs the model draws from.
NumDevices == 2
\* Longest device-ID list passed to one allocator call / one container request.
MaxIds == 2
\* Most container requests in one Allocate request.
MaxContainers == 2
\* characters of a tool output
MaxOutLen == 2
\* digits of the size in a MIG profile
MaxDigits == 2
\* physical GPUs of the node that MIG reconciliation visits
NumGPUs == 2
\* largest MIG_INSTANCE_COUNT configured
MaxInstanceCount == 2
\* GPU instances a GPU may hold before the first pass
MaxInitialGI == 1

\* ------------------------------------------------------------- value sets

Devices == 1..NumDevices

\* Pod UIDs; "" is the empty owner token (identity not resolved).
Pods == {"pod-A", "pod-B"}
OwnerTokens == {""} \cup Pods

RECURSIVE SeqsUpTo(_, _)
SeqsUpTo(S, n) ==
    IF n = 0 THEN {<<>>}
    ELSE LET shorter == SeqsUpTo(S, n - 1)
         IN  shorter \cup {Append(s, x) : s \in {t \in shorter : Len(t) = n - 1}, x \in S}

\* The ids []string arguments the model enumerates.
IdLists == SeqsUpTo(Devices, MaxIds)

Range(s) == {s[i] : i \in 1..Len(s)}

ErrNone == "nil"
ErrDeviceAlreadyAllocated == "device already allocated"

\* ------------------------------------------------------------------ state

VARIABLES
    allocated,     \* SimpleAllocator.allocated: the set of keys of map[string]bool
    deviceToPod,   \* SimpleAllocator.deviceToPod: function from its keys to pod UIDs
    op,            \* the last allocator call made through the API: name, arguments, result
    handler,       \* per Allocate RPC in flight: request, position in its loops, result
    catalog,       \* NVIDIAManager: devices (cache), lastDiscovery (as its age), deviceMap
    hw,            \* the node as nvidia-smi sees it: devices listed, devices answering
    dcall,         \* the last direct DiscoverGPUs call: what it returned, whether it ran the tool
    server,        \* DevicePluginServer: deviceMap (its keys), lastDeviceState
    watch,         \* per ListAndWatch call: position, pending tick, what the last event led to
    healthChan,    \* s.healthChan: the device IDs buffered in the channel
    hc,            \* the HealthCheck goroutine: position, the device list it is scanning
    sig,           \* s.stop closed, ctx cancelled
    recycler,      \* the ResourceRecycler goroutine: position, snapshot, devices to release
    snap,          \* the map last returned by GetAllocationMap, in its caller's hands
    mig,           \* MIGManager, the GPUs as the tool sees them, the calls of the last pass
    sync           \* the goroutines seen at the grain of lock and memory operations

\* No MIG manager configured; no goroutine followed at the grain of its locks.
NoMIG == << >>
NoSync == << >>

allocVars == <<allocated, deviceToPod>>
catalogVars == <<catalog, hw, dcall>>
srvVars == <<server, watch, healthChan, hc, sig>>
vars == <<allocated, deviceToPod, op, handler, catalog, hw, dcall,
          server, watch, healthChan, hc, sig, recycler, snap, mig, sync>>

\* hit: a Deallocate call found at least one of its ids allocated.
NoOp ==
    [name |-> "none", ids |-> <<>>, podUID |-> "", discovered |-> {}, err |-> ErrNone,
     hit |-> FALSE]

\* --------------------------------------------------------------- allocator
\* Each operator takes the allocator state (alloc, d2p) as it is when the lock is
\* taken and gives the state when the lock is released.

\* Go map read: the zero value "" for a missing key.
MapGet(d2p, id) == IF id \in DOMAIN d2p THEN d2p[id] ELSE ""

\* Allocate, first loop: some requested id is a key of allocated.
AllocateConflict(alloc, ids) == \E i \in 1..Len(ids) : ids[i] \in alloc

\* Mutants of Allocate (plausible slips), used to show the claims depend on it.
AllocateUnchecked(alloc, d2p, ids, podUID) ==
    [allocated   |-> alloc \cup Range(ids),
     deviceToPod |-> [d \in DOMAIN d2p \cup Range(ids) |->
                        IF d \in Range(ids) THEN podUID ELSE d2p[d]],
     err         |-> ErrNone]

AllocatePartial(alloc, d2p, ids, podUID) ==
    LET free == {d \in Range(ids) : d \notin alloc}
    IN  IF AllocateConflict(alloc, ids)
        THEN [allocated   |-> alloc \cup free,
              deviceToPod |-> [d \in DOMAIN d2p \cup free |->
                                 IF d \in free THEN podUID ELSE d2p[d]],
              err         |-> ErrDeviceAlreadyAllocated]
        ELSE AllocateUnchecked(alloc, d2p, ids, podUID)

Allocate(alloc, d2p, ids, podUID) ==
    IF AllocateConflict(alloc, ids)
    THEN [allocated |-> alloc, deviceToPod |-> d2p, err |-> ErrDeviceAlreadyAllocated]
    ELSE [allocated   |-> alloc \cup Range(ids),
          deviceToPod |-> [d \in DOMAIN d2p \cup Range(ids) |->
                             IF d \in Range(ids) THEN podUID ELSE d2p[d]],
          err         |-> ErrNone]

GetPodUID(d2p, deviceID) == MapGet(d2p, deviceID)

\* A Deallocate that forgets the owner entries (a plausible slip).
DeallocateAllocatedOnly(alloc, d2p, ids) ==
    [allocated   |-> alloc \ Range(ids),
     deviceToPod |-> d2p]

\* Deallocate: only ids that are keys of allocated are deleted, from both maps.
Deallocate(alloc, d2p, ids) ==
    LET gone == Range(ids) \cap alloc
    IN  [allocated   |-> alloc \ gone,
         deviceToPod |-> [d \in DOMAIN d2p \ gone |-> d2p[d]]]

GetAllocatedDevices(alloc) == alloc

\* CleanupOrphanedDevices: deletes from allocated only; deviceToPod is not touched.
CleanupOrphanedDevices(alloc, d2p, discoveredIDs) ==
    [allocated   |-> {d \in alloc : d \in discoveredIDs},
     deviceToPod |-> d2p]

\* GetAllocationMap: a copy of deviceToPod.
GetAllocationMap(d2p) == [d \in DOMAIN d2p |-> d2p[d]]

\* A Go map is a reference.  A map handed to a caller is either a map of its own
\* ("copy", holding map) or the allocator's deviceToPod itself ("alias").  gen flips
\* at every GetAllocationMap call, edits at every write of the caller into the map.
NoSnapshot == [ref |-> "none", map |-> << >>, gen |-> 0, edits |-> 0]

\* A GetAllocationMap that returns a.deviceToPod itself (a plausible slip).
SnapshotStorageShared == "alias"

\* GetAllocationMap: result := make(map[string]string), filled entry by entry.
SnapshotStorage == "copy"

\* What the caller reads in the map it was handed.
SnapshotContents(sn, d2p) == IF sn.ref = "alias" THEN d2p ELSE sn.map

\* m[d] = owner, or delete(m, d) when owner is "none".
MapWrite(m, d, owner) ==
    IF owner = "none"
    THEN [k \in DOMAIN m \ {d} |-> m[k]]
    ELSE [k \in DOMAIN m \cup {d} |-> IF k = d THEN owner ELSE m[k]]


\* ------------------------------------------------------------ NVIDIAManager
\* Time is counted in minutes.  Only time.Since(m.lastDiscovery) is ever read, and only
\* compared with the TTL, so the catalog keeps the age of lastDiscovery, saturating at
\* the TTL; the zero time.Time of a new manager is older than any TTL.

\* 5*time.Minute
CacheTTL == 5

ErrDiscovery == "discovery failed"

\* m.devices is nil until a discovery appended at least one device to it.  busy says
\* where the goroutine that holds discoverySync is in DiscoverGPUs ("no": the lock is
\* free; "tool": the device map is reset and the nvidia-smi query runs; "fill": the
\* query has answered and the new map is being written).  replaced is the map
\* m.deviceMap pointed to before the reset of the discovery in progress.
NewNVIDIAManager ==
    [devices |-> <<>>, devicesNil |-> TRUE, sinceDiscovery |-> CacheTTL, deviceMap |-> {},
     busy |-> "no", replaced |-> {}]

\* No GPU listed, none answering queries.
NoHardware == [present |-> {}, healthy |-> {}]

NoDiscoverCall ==
    [seq |-> 0, result |-> <<>>, err |-> ErrNone, invoked |-> FALSE,
     toolRan |-> FALSE, toolResult |-> <<>>]

RECURSIVE SortedSeq(_)
\* nvidia-smi lists the GPUs in index order.
SortedSeq(S) ==
    IF S = {} THEN <<>>
    ELSE LET m == CHOOSE x \in S : \A y \in S : x <= y
         IN  <<m>> \o SortedSeq(S \ {m})

\* time.Since(m.lastDiscovery) < 5*time.Minute && m.devices != nil
CacheUsable(cat) == cat.sinceDiscovery < CacheTTL /\ ~cat.devicesNil

\* DiscoverGPUs past the cache test: m.deviceMap = make(...), then the query starts,
\* discoverySync still held.
DiscoverReset(cat) ==
    [cat EXCEPT !.replaced = cat.deviceMap, !.deviceMap = {}, !.busy = "tool"]

\* The query has returned.  An error: DiscoverGPUs returns it and unlocks, the map stays
\* empty.  A listing: the loop starts to write one entry per listed GPU into the map.
DiscoverToolReturns(cat, toolFails, present) ==
    IF toolFails
    THEN [cat EXCEPT !.busy = "no", !.replaced = {}]
    ELSE [cat EXCEPT !.busy = "fill", !.deviceMap = present]

\* The end of a successful discovery: m.devices, m.lastDiscovery, unlock.
DiscoverFilled(cat) ==
    LET devices == SortedSeq(cat.deviceMap)
    IN  [devices |-> devices, devicesNil |-> devices = <<>>,
         sinceDiscovery |-> 0, deviceMap |-> cat.deviceMap,
         busy |-> "no", replaced |-> {}]

\* DiscoverGPUs, from Lock to Unlock: toolFails says whether the nvidia-smi query
\* returns an error, present is what it lists otherwise.
DiscoverGPUs(cat, toolFails, present) ==
    IF CacheUsable(cat)
    THEN [catalog |-> cat, result |-> cat.devices, err |-> ErrNone, invoked |-> FALSE]
    ELSE IF toolFails
    THEN [catalog |-> DiscoverToolReturns(DiscoverReset(cat), TRUE, present),
          result |-> <<>>, err |-> ErrDiscovery, invoked |-> TRUE]
    ELSE LET done == DiscoverFilled(DiscoverToolReturns(DiscoverReset(cat), FALSE, present))
         IN  [catalog |-> done, result |-> done.devices, err |-> ErrNone, invoked |-> TRUE]

\* The output of an nvidia-smi query is a string of at most MaxOutLen characters,
\* blank or not.
OutChars == {" ", "7"}
Outputs == SeqsUpTo(OutChars, MaxOutLen)

RECURSIVE TrimLeft(_)
TrimLeft(str) ==
    IF str # <<>> /\ Head(str) = " " THEN TrimLeft(Tail(str)) ELSE str

RECURSIVE TrimRight(_)
TrimRight(str) ==
    IF str # <<>> /\ str[Len(str)] = " "
    THEN TrimRight(SubSeq(str, 1, Len(str) - 1)) ELSE str

\* strings.TrimSpace
TrimSpace(str) == TrimRight(TrimLeft(str))

\* A deviceMap entry: a whole GPU (its own query target) or a MIG partition of the
\* physical GPU physicalID.
PlainDevice(id) == [mig |-> FALSE, physicalID |-> id]

\* A CheckHealth that trusts every query that ran without error (a plausible slip).
CheckHealthDeviceNoOutputTest(deviceMap, deviceID, toolErr, out) ==
    IF deviceID \notin DOMAIN deviceMap
    THEN [queried |-> FALSE, target |-> 0, healthy |-> FALSE]
    ELSE LET device == deviceMap[deviceID]
             targetID == IF device.mig THEN device.physicalID ELSE deviceID
         IN  [queried |-> TRUE, target |-> targetID, healthy |-> ~toolErr]

\* CheckHealth(deviceID) on a deviceMap given as a function from IDs to entries;
\* toolErr and out are what the utilization query of the target returns.
CheckHealthDevice(deviceMap, deviceID, toolErr, out) ==
    IF deviceID \notin DOMAIN deviceMap
    THEN [queried |-> FALSE, target |-> 0, healthy |-> FALSE]
    ELSE LET device == deviceMap[deviceID]
             targetID == IF device.mig THEN device.physicalID ELSE deviceID
         IN  [queried |-> TRUE, target |-> targetID,
              healthy |-> IF toolErr THEN FALSE
                          ELSE TrimSpace(out) # <<>>]

\* CheckHealth on the catalog of whole GPUs with nothing else running: false for an id
\* missing from deviceMap, otherwise what the utilization query of the device gives (a
\* device outside hardware.healthy fails the query).
CheckHealth(cat, hardware, deviceID) ==
    CheckHealthDevice([d \in cat.deviceMap |-> PlainDevice(d)], deviceID,
                      deviceID \notin hardware.healthy, <<"7">>).healthy

\* CheckHealth, `device, exists := m.deviceMap[deviceID]`: what the read can find.
\* m.deviceMap is read without discoverySync.  While another goroutine is inside a
\* discovery the read meets the replaced map or the new one: empty while the query
\* runs, written entry by entry afterwards (an entry not written yet reads as missing).
CheckHealthFinds(cat, deviceID) ==
    CASE cat.busy = "no" -> {(deviceID \in cat.deviceMap)}
      [] cat.busy = "tool" -> {FALSE, (deviceID \in cat.replaced)}
      [] cat.busy = "fill" ->
            {FALSE, (deviceID \in cat.deviceMap), (deviceID \in cat.replaced)}

\* CheckHealth past the map read, for an entry that was found: the utilization query
\* of the device has returned (a device outside hardware.healthy fails the query).
CheckHealthQuery(hardware, deviceID) ==
    CheckHealthDevice([d \in {deviceID} |-> PlainDevice(d)], deviceID,
                      deviceID \notin hardware.healthy, <<"7">>).healthy

\* A read of the map another goroutine is writing at that moment ends the process:
\* the runtime's fatal error "concurrent map read and map write".
CheckHealthCrashes(cat) == cat.busy = "fill" /\ cat.deviceMap # {}

\* CheckHealth called directly, on any deviceMap of whole GPUs and MIG partitions
\* (one call per behaviour: the function keeps no state between calls).
CallCheckHealth ==
    /\ dcall = NoDiscoverCall
    /\ \E known \in SUBSET Devices, toolErr \in BOOLEAN, out \in Outputs, id \in Devices :
        \E deviceMap \in [known -> [mig : BOOLEAN, physicalID : Devices]] :
            LET r == CheckHealthDevice(deviceMap, id, toolErr, out)
            IN  /\ dcall' = [name |-> "CheckHealth", deviceMap |-> deviceMap,
                             id |-> id, toolErr |-> toolErr, out |-> out,
                             queried |-> r.queried, target |-> r.target,
                             healthy |-> r.healthy]
                /\ UNCHANGED <<mig, sync, snap, allocVars, op, handler, catalog, hw, srvVars, recycler>>

\* A DiscoverGPUs call by any caller.  dcall also remembers the list the tool gave the
\* last time it ran successfully (toolRan, toolResult).
CallDiscoverGPUs ==
    \E toolFails \in BOOLEAN :
        LET r == DiscoverGPUs(catalog, toolFails, hw.present)
            ok == r.invoked /\ r.err = ErrNone
        IN  /\ catalog' = r.catalog
            /\ dcall' = [seq |-> 1 - dcall.seq, result |-> r.result, err |-> r.err,
                         invoked |-> r.invoked,
                         toolRan |-> dcall.toolRan \/ ok,
                         toolResult |-> IF ok THEN r.result ELSE dcall.toolResult]
            /\ UNCHANGED <<mig, sync, snap, allocVars, op, handler, hw, srvVars, recycler>>

\* A minute passes.
TimePasses ==
    /\ catalog.sinceDiscovery < CacheTTL
    /\ catalog' = [catalog EXCEPT !.sinceDiscovery = catalog.sinceDiscovery + 1]
    /\ UNCHANGED <<mig, sync, snap, allocVars, op, handler, hw, dcall, srvVars, recycler>>

\* The lifetime of the cached list runs out.
CacheExpires ==
    /\ catalog.sinceDiscovery < CacheTTL
    /\ catalog' = [catalog EXCEPT !.sinceDiscovery = CacheTTL]
    /\ UNCHANGED <<mig, sync, snap, allocVars, op, handler, hw, dcall, srvVars, recycler>>

\* A device appears on or disappears from the node; a device that is gone answers
\* no query.
HardwareChanges ==
    /\ \E d \in Devices :
          hw' = IF d \in hw.present
                THEN [present |-> hw.present \ {d}, healthy |-> hw.healthy \ {d}]
                ELSE [hw EXCEPT !.present = hw.present \cup {d}]
    /\ UNCHANGED <<mig, sync, snap, allocVars, op, handler, catalog, dcall, srvVars, recycler>>

\* A device starts or stops answering the utilization query.
HealthChanges ==
    /\ \E d \in hw.present :
          hw' = [hw EXCEPT !.healthy = IF d \in hw.healthy THEN hw.healthy \ {d}
                                       ELSE hw.healthy \cup {d}]
    /\ UNCHANGED <<mig, sync, snap, allocVars, op, handler, catalog, dcall, srvVars, recycler>>

\* ------------------------------------------------ ListAndWatch and HealthCheck

\* make(chan string, 1)
HealthChanCap == 1

\* New: an empty deviceMap (its keys are kept).  lastDeviceState only feeds the log
\* lines of updateDeviceList and is left out.
NewServer == [deviceMap |-> {}]

\* A ListAndWatch call that has not arrived yet.  trigger is the event the watch last
\* took (connect, tick, health); discoveries and pushes count the DiscoverGPUs calls
\* and the stream.Send calls that succeeded since that event; devices is the list its
\* updateDeviceList got from DiscoverGPUs and idx the position of its CheckHealth loop.
NoWatch ==
    [pc |-> "init", trigger |-> "none", tick |-> FALSE,
     discoveries |-> 0, pushes |-> 0, err |-> ErrNone, devices |-> <<>>, idx |-> 1]

ErrSend == "send failed"

RecyclerOff == [pc |-> "off", snapshot |-> << >>, allocatedThen |-> {}, toRelease |-> {}]

\* The select with a stop branch that does not return (a plausible slip).
SelectBranchStopIgnored(event) ==
    CASE event = "tick" -> "update"
      [] event = "health" -> "update"
      [] event = "stop" -> "update"

\* The select branch that only logs a health signal (a plausible slip).
SelectBranchHealthLogged(event) ==
    CASE event = "tick" -> "update"
      [] event = "health" -> "wait"
      [] event = "stop" -> "stopped"

\* The select of ListAndWatch: a tick and a health signal both run updateDeviceList,
\* a closed stop channel returns nil.
SelectBranch(event) ==
    CASE event = "tick" -> "update"
      [] event = "health" -> "update"
      [] event = "stop" -> "stopped"

\* d.IsHealthy(): the healthy field, set to true when the device is discovered and
\* never written again.
IsHealthy(d) == TRUE

\* The positions of a watch inside updateDeviceList: before DiscoverGPUs, inside it,
\* before CleanupOrphanedDevices, before the s.deviceMap write, in the loop before the
\* map read of a CheckHealth, in the loop while the query of a CheckHealth runs, before
\* stream.Send.
UpdatePcs == {"update", "discover", "cleanup", "health", "check", "query", "send"}

\* The watch is in the for/select loop of ListAndWatch: at the select, or in the
\* updateDeviceList of a tick or of a health signal.
Streaming(w) ==
    \/ watch[w].pc = "wait"
    \/ watch[w].pc \in UpdatePcs /\ watch[w].trigger # "connect"

\* A goroutine died of a runtime fatal error, and the process with it.
Crashed ==
    \/ hc.pc = "fatal"
    \/ \E w \in DOMAIN watch : watch[w].pc = "fatal"

\* A ListAndWatch that takes the next event while updateDeviceList is still running,
\* as it would with one goroutine per event (a plausible slip).
AtSelectOrUpdating(w) == w.pc \in {"wait", "update"}

\* The goroutine of ListAndWatch is at its select only between two updateDeviceList
\* calls: each case calls updateDeviceList itself and waits for it to return.
AtSelect(w) == w.pc = "wait"

\* kubelet opens the stream: ListAndWatch starts with updateDeviceList.
WatchConnect(w) ==
    /\ watch[w].pc = "init"
    /\ watch' = [watch EXCEPT ![w] = [NoWatch EXCEPT !.pc = "update", !.trigger = "connect"]]
    /\ UNCHANGED <<mig, sync, snap, allocVars, op, handler, catalogVars, server, healthChan, hc, sig, recycler>>

\* ListAndWatch after an updateDeviceList that only logs its error (a plausible slip).
WatchAfterUpdateLogged(err) == "wait"

\* ListAndWatch after updateDeviceList: `if err != nil { return err }`, on connect and
\* in both update branches of the select.
WatchAfterUpdate(err) == IF err # ErrNone THEN "faulted" ELSE "wait"

\* updateDeviceList, s.manager.DiscoverGPUs(): the lock is free.  A usable cache is
\* returned at once; otherwise the device map is reset and the query starts.
WatchUpdate(w) ==
    /\ watch[w].pc = "update"
    /\ catalog.busy = "no"
    /\ IF CacheUsable(catalog)
       THEN /\ watch' = [watch EXCEPT ![w] =
                   [@ EXCEPT !.pc = "cleanup", !.devices = catalog.devices,
                             !.discoveries = @ + 1]]
            /\ UNCHANGED catalog
       ELSE /\ catalog' = DiscoverReset(catalog)
            /\ watch' = [watch EXCEPT ![w].pc = "discover"]
    /\ UNCHANGED <<mig, sync, snap, allocVars, op, handler, hw, dcall, server, healthChan, hc, sig, recycler>>

\* The query of the watch's discovery returns.  On an error DiscoverGPUs returns it
\* and updateDeviceList with it, which ends ListAndWatch.
WatchToolReturns(w) ==
    /\ watch[w].pc = "discover"
    /\ catalog.busy = "tool"
    /\ \E toolFails \in BOOLEAN :
          /\ catalog' = DiscoverToolReturns(catalog, toolFails, hw.present)
          /\ watch' = IF toolFails
                      THEN [watch EXCEPT ![w] =
                              [@ EXCEPT !.pc = WatchAfterUpdate(ErrDiscovery),
                                        !.err = ErrDiscovery]]
                      ELSE watch
    /\ UNCHANGED <<mig, sync, snap, allocVars, op, handler, hw, dcall, server, healthChan, hc, sig, recycler>>

\* The watch's discovery has written the map: it returns the new list.
WatchDiscovered(w) ==
    /\ watch[w].pc = "discover"
    /\ catalog.busy = "fill"
    /\ catalog' = DiscoverFilled(catalog)
    /\ watch' = [watch EXCEPT ![w] =
          [@ EXCEPT !.pc = "cleanup", !.devices = catalog'.devices,
                    !.discoveries = @ + 1]]
    /\ UNCHANGED <<mig, sync, snap, allocVars, op, handler, hw, dcall, server, healthChan, hc, sig, recycler>>

\* updateDeviceList, s.allocator.CleanupOrphanedDevices(discoveredIDs).
WatchCleanup(w) ==
    LET r == CleanupOrphanedDevices(allocated, deviceToPod, Range(watch[w].devices))
    IN  /\ watch[w].pc = "cleanup"
        /\ allocated' = r.allocated
        /\ deviceToPod' = r.deviceToPod
        /\ watch' = [watch EXCEPT ![w].pc = "health"]
        /\ UNCHANGED <<mig, sync, snap, op, handler, catalogVars, server, healthChan, hc, sig, recycler>>

\* updateDeviceList, s.deviceMap = newDeviceMap; the loop over the list follows.
WatchWriteDeviceMap(w) ==
    /\ watch[w].pc = "health"
    /\ server' = [server EXCEPT !.deviceMap = Range(watch[w].devices)]
    /\ watch' = [watch EXCEPT ![w] =
          IF watch[w].devices = <<>> THEN [@ EXCEPT !.pc = "send"]
          ELSE [@ EXCEPT !.pc = "check", !.idx = 1]]
    /\ UNCHANGED <<mig, sync, snap, allocVars, op, handler, catalogVars, healthChan, hc, sig, recycler>>

\* The loop of updateDeviceList after the CheckHealth of devices[idx] has returned.
\* The answer only fills the message to send, which the watch holds after the last
\* device in place of the list.
WatchAfterCheck(wr) ==
    IF wr.idx = Len(wr.devices)
    THEN [wr EXCEPT !.pc = "send", !.devices = <<>>, !.idx = 1]
    ELSE [wr EXCEPT !.pc = "check", !.idx = wr.idx + 1]

\* updateDeviceList, s.manager.CheckHealth(d.ID()) up to its query: an entry that is
\* found starts the utilization query, a missing one returns false at once.
WatchCheckHealth(w) ==
    /\ watch[w].pc = "check"
    /\ \E exists \in CheckHealthFinds(catalog, watch[w].devices[watch[w].idx]) :
          watch' = [watch EXCEPT ![w] =
                      IF exists THEN [@ EXCEPT !.pc = "query"] ELSE WatchAfterCheck(@)]
    /\ UNCHANGED <<mig, sync, snap, allocVars, op, handler, catalogVars, server, healthChan, hc, sig, recycler>>

\* The same read of m.deviceMap while the HealthCheck goroutine writes the map.
WatchCheckHealthFatal(w) ==
    /\ watch[w].pc = "check"
    /\ CheckHealthCrashes(catalog)
    /\ watch' = [watch EXCEPT ![w].pc = "fatal"]
    /\ UNCHANGED <<mig, sync, snap, allocVars, op, handler, catalogVars, server, healthChan, hc, sig, recycler>>

\* The utilization query of that CheckHealth returns, and CheckHealth with it.
WatchQueryReturns(w) ==
    /\ watch[w].pc = "query"
    /\ watch' = [watch EXCEPT ![w] = WatchAfterCheck(@)]
    /\ UNCHANGED <<mig, sync, snap, allocVars, op, handler, catalogVars, server, healthChan, hc, sig, recycler>>

\* updateDeviceList, return stream.Send(...): an error ends ListAndWatch.
WatchSend(w) ==
    /\ watch[w].pc = "send"
    /\ \E sendFails \in BOOLEAN :
          watch' = [watch EXCEPT ![w] =
             IF sendFails
             THEN [@ EXCEPT !.pc = WatchAfterUpdate(ErrSend), !.err = ErrSend]
             ELSE [@ EXCEPT !.pc = WatchAfterUpdate(ErrNone), !.pushes = @ + 1]]
    /\ UNCHANGED <<mig, sync, snap, allocVars, op, handler, catalogVars, server, healthChan, hc, sig, recycler>>

\* The 10 s ticker of a streaming watch fires; ticker.C holds one tick at most.
WatchTickerFires(w) ==
    /\ watch[w].pc \in {"wait"} \cup UpdatePcs
    /\ watch[w].trigger # "connect"
       \/ watch[w].pc = "wait"
    /\ ~watch[w].tick
    /\ watch' = [watch EXCEPT ![w].tick = TRUE]
    /\ UNCHANGED <<mig, sync, snap, allocVars, op, handler, catalogVars, server, healthChan, hc, sig, recycler>>

\* select: case <-ticker.C
WatchSelectTick(w) ==
    /\ AtSelect(watch[w])
    /\ watch[w].tick
    /\ watch' = [watch EXCEPT ![w] =
          [@ EXCEPT !.pc = SelectBranch("tick"), !.trigger = "tick", !.tick = FALSE,
                    !.discoveries = 0, !.pushes = 0]]
    /\ UNCHANGED <<mig, sync, snap, allocVars, op, handler, catalogVars, server, healthChan, hc, sig, recycler>>

\* select: case id := <-s.healthChan
WatchSelectHealth(w) ==
    /\ AtSelect(watch[w])
    /\ healthChan # <<>>
    /\ healthChan' = Tail(healthChan)
    /\ watch' = [watch EXCEPT ![w] =
          [@ EXCEPT !.pc = SelectBranch("health"), !.trigger = "health",
                    !.discoveries = 0, !.pushes = 0]]
    /\ UNCHANGED <<mig, sync, snap, allocVars, op, handler, catalogVars, server, hc, sig, recycler>>

\* select: case <-s.stop
WatchSelectStop(w) ==
    /\ AtSelect(watch[w])
    /\ sig.stop
    /\ watch' = [watch EXCEPT ![w].pc = SelectBranch("stop")]
    /\ UNCHANGED <<mig, sync, snap, allocVars, op, handler, catalogVars, server, healthChan, hc, sig, recycler>>

\* ListAndWatch has returned (nil or the error); kubelet may open a new stream.
WatchReturn(w) ==
    /\ watch[w].pc \in {"stopped", "faulted"}
    /\ watch' = [watch EXCEPT ![w] = NoWatch]
    /\ UNCHANGED <<mig, sync, snap, allocVars, op, handler, catalogVars, server, healthChan, hc, sig, recycler>>

\* The HealthCheck goroutine between two rounds.
HealthCheckWaiting == [pc |-> "wait", devices |-> <<>>, idx |-> 1]

\* HealthCheck with the list DiscoverGPUs returned: the loop over it.
HealthCheckRound(devices) ==
    IF devices = <<>> THEN HealthCheckWaiting
    ELSE [pc |-> "scan", devices |-> devices, idx |-> 1]

\* HealthCheck, case <-ticker.C: s.manager.DiscoverGPUs(), the lock is free.  A usable
\* cache is returned at once; otherwise the device map is reset and the query starts.
HealthCheckTick ==
    /\ hc.pc = "wait"
    /\ catalog.busy = "no"
    /\ IF CacheUsable(catalog)
       THEN /\ hc' = HealthCheckRound(catalog.devices)
            /\ UNCHANGED catalog
       ELSE /\ catalog' = DiscoverReset(catalog)
            /\ hc' = [hc EXCEPT !.pc = "discover"]
    /\ UNCHANGED <<mig, sync, snap, allocVars, op, handler, hw, dcall, server, watch, healthChan, sig, recycler>>

\* The query of the task's discovery returns; on an error the round is skipped.
HealthCheckToolReturns ==
    /\ hc.pc = "discover"
    /\ catalog.busy = "tool"
    /\ \E toolFails \in BOOLEAN :
          /\ catalog' = DiscoverToolReturns(catalog, toolFails, hw.present)
          /\ hc' = IF toolFails THEN HealthCheckWaiting ELSE hc
    /\ UNCHANGED <<mig, sync, snap, allocVars, op, handler, hw, dcall, server, watch, healthChan, sig, recycler>>

\* The task's discovery has written the map: it returns the new list.
HealthCheckDiscovered ==
    /\ hc.pc = "discover"
    /\ catalog.busy = "fill"
    /\ catalog' = DiscoverFilled(catalog)
    /\ hc' = HealthCheckRound(catalog'.devices)
    /\ UNCHANGED <<mig, sync, snap, allocVars, op, handler, hw, dcall, server, watch, healthChan, sig, recycler>>

\* HealthCheck, loop body once CheckHealth(d.ID()) has returned actualHealth: a
\* difference from d.IsHealthy() is signalled, otherwise the loop goes on.
HealthCheckAfter(actualHealth) ==
    IF IsHealthy(hc.devices[hc.idx]) # actualHealth
    THEN [hc EXCEPT !.pc = "send"]
    ELSE IF hc.idx = Len(hc.devices)
    THEN HealthCheckWaiting
    ELSE [hc EXCEPT !.pc = "scan", !.idx = hc.idx + 1]

\* HealthCheck, loop body, s.manager.CheckHealth(d.ID()) up to its query: an entry
\* that is found starts the utilization query, a missing one returns false at once.
HealthCheckScanStep(exists) ==
    /\ hc.pc = "scan"
    /\ exists \in CheckHealthFinds(catalog, hc.devices[hc.idx])
    /\ hc' = IF exists THEN [hc EXCEPT !.pc = "query"] ELSE HealthCheckAfter(FALSE)
    /\ UNCHANGED <<mig, sync, snap, allocVars, op, handler, catalog, hw, server, watch,
                   healthChan, sig, recycler>>

HealthCheckScan ==
    \E exists \in BOOLEAN : HealthCheckScanStep(exists) /\ UNCHANGED dcall

\* The utilization query of that CheckHealth returns, and CheckHealth with it.
HealthCheckQueryStep(actualHealth) ==
    /\ hc.pc = "query"
    /\ actualHealth = CheckHealthQuery(hw, hc.devices[hc.idx])
    /\ hc' = HealthCheckAfter(actualHealth)
    /\ UNCHANGED <<mig, sync, snap, allocVars, op, handler, catalog, hw, server, watch,
                   healthChan, sig, recycler>>

HealthCheckQuery ==
    \E actualHealth \in BOOLEAN : HealthCheckQueryStep(actualHealth) /\ UNCHANGED dcall

\* The loop body reads m.deviceMap while the ListAndWatch goroutine writes it.
HealthCheckScanFatal ==
    /\ hc.pc = "scan"
    /\ CheckHealthCrashes(catalog)
    /\ hc' = [hc EXCEPT !.pc = "fatal"]
    /\ UNCHANGED <<mig, sync, snap, allocVars, op, handler, catalogVars, server, watch,
                   healthChan, sig, recycler>>

\* The loop body, with the answer of CheckHealth noted per device: checked[d] is what
\* the task got for d the last time it scanned d.
NoChecks == [checked |-> << >>]

Noted(d, actualHealth) ==
    [checked |-> [x \in DOMAIN dcall.checked \cup {d} |->
                    IF x = d THEN actualHealth ELSE dcall.checked[x]]]

HealthCheckScanNoted ==
    \E exists \in BOOLEAN :
        /\ HealthCheckScanStep(exists)
        /\ dcall' = IF exists THEN dcall ELSE Noted(hc.devices[hc.idx], FALSE)

HealthCheckQueryNoted ==
    \E actualHealth \in BOOLEAN :
        /\ HealthCheckQueryStep(actualHealth)
        /\ dcall' = Noted(hc.devices[hc.idx], actualHealth)

\* HealthCheck: s.healthChan <- d.ID(), a plain channel send: it completes only when
\* the buffer has room.
HealthCheckSend ==
    /\ hc.pc = "send"
    /\ Len(healthChan) < HealthChanCap
    /\ healthChan' = Append(healthChan, hc.devices[hc.idx])
    /\ hc' = IF hc.idx = Len(hc.devices)
             THEN HealthCheckWaiting
             ELSE [hc EXCEPT !.pc = "scan", !.idx = hc.idx + 1]
    /\ UNCHANGED <<mig, sync, snap, allocVars, op, handler, catalogVars, server, watch, sig, recycler>>

\* HealthCheck, case <-ctx.Done()
HealthCheckCancelled ==
    /\ hc.pc = "wait"
    /\ sig.ctxDone
    /\ hc' = [hc EXCEPT !.pc = "stopped"]
    /\ UNCHANGED <<mig, sync, snap, allocVars, op, handler, catalogVars, server, watch, healthChan, sig,
                   recycler>>

\* main on SIGINT/SIGTERM: cancel(), then Stop() of every server.
MainCancel ==
    /\ ~sig.ctxDone
    /\ sig' = [sig EXCEPT !.ctxDone = TRUE]
    /\ UNCHANGED <<mig, sync, snap, allocVars, op, handler, catalogVars, server, watch, healthChan, hc,
                   recycler>>

MainStop ==
    /\ sig.ctxDone
    /\ ~sig.stop
    /\ sig' = [sig EXCEPT !.stop = TRUE]
    /\ UNCHANGED <<mig, sync, snap, allocVars, op, handler, catalogVars, server, watch, healthChan, hc,
                   recycler>>

\* ------------------------------------------------- DevicePluginServer.Allocate
\* gRPC serves each Allocate call on its own goroutine; handler[h] is the state of
\* call h.  The handler works through req.ContainerRequests one container at a time
\* and never looks ahead, so the model keeps the container it is working on (ids), the
\* number of containers of the request (n) and the index of the current one (ci).

ErrAlreadyAllocated == "device is already allocated"
ErrAllocationFailed == "allocation failed"

\* What the Pods(...).Get lookup of isPodActive can come back with: an error, a pod
\* with a deletion timestamp, or a pod in one of the phases.
LookupOutcomes == {"error", "deleting", "Running", "Pending", "Succeeded", "Failed"}

NoReport == [dev |-> 0, owner |-> "", active |-> FALSE, made |-> FALSE]

\* The separator of strings.Join(containerReq.DevicesIDs, ","); a string is the
\* sequence of its tokens, a device ID being one token.
Comma == 0

RECURSIVE Join(_)
\* strings.Join(elems, ","): the elements with one separator between neighbours.
Join(elems) ==
    IF Len(elems) = 0 THEN <<>>
    ELSE IF Len(elems) = 1 THEN <<elems[1]>>
    ELSE <<elems[1], Comma>> \o Join(Tail(elems))

\* envs["NVIDIA_VISIBLE_DEVICES"] with the IDs put in index order (a plausible slip).
VisibleDevicesSorted(ids) == Join(SortedSeq(Range(ids)))

\* envs["NVIDIA_VISIBLE_DEVICES"] of a container response.
VisibleDevices(ids) == Join(ids)

\* containerResp before its Envs are set.
NoContainerResp == [set |-> FALSE, env |-> <<>>]

\* nresp is len(response.ContainerResponses), containerResp the response of the
\* current container, committed the device IDs of the containers allocated so far.
IdleHandler ==
    [pc |-> "idle", n |-> 0, ci |-> 1, ids |-> <<>>, di |-> 1, podUID |-> "",
     err |-> ErrNone, report |-> NoReport, reclaimed |-> {},
     startAllocated |-> {}, startDeviceToPod |-> << >>,
     nresp |-> 0, containerResp |-> NoContainerResp, committed |-> {}]

\* isPodActive: "" is never active; otherwise the lookup decides.
isPodActive(podUID, lookup) ==
    IF podUID = "" THEN FALSE
    ELSE IF lookup = "error" THEN FALSE
    ELSE IF lookup = "deleting" THEN FALSE
    ELSE lookup \in {"Running", "Pending"}

\* Allocator.IsAvailable is called by the handler; its body is not among the sources.
IsAvailable(alloc, id) == id \notin alloc

\* Where the handler stands at device di of the current container: checking a device,
\* or committing the container.
HandlerPc(ids, di) == IF di > Len(ids) THEN "commit" ELSE "check"

\* The branch taken for a device that is not available, inverted (a plausible slip).
UnavailableBranchInverted(ownerActive) == IF ownerActive THEN "reclaim" ELSE "failed"

\* The branch taken for a device that is not available: reclaim when its owner is
\* not active, fail the request otherwise.
UnavailableBranch(ownerActive) == IF ~ownerActive THEN "reclaim" ELSE "failed"

\* The call arrives with n containers; the caller's pod UID is resolved ("" when it
\* cannot be) before the loop over the containers starts.
HandlerStart(h) ==
    /\ handler[h].pc = "idle"
    /\ \E n \in 0..MaxContainers, podUID \in OwnerTokens, ids \in IdLists :
          /\ n = 0 => ids = <<>>
          /\ handler' = [handler EXCEPT ![h] =
                [IdleHandler EXCEPT !.pc = IF n = 0 THEN "ok" ELSE HandlerPc(ids, 1),
                                    !.n = n, !.ids = ids, !.podUID = podUID,
                                    !.startAllocated = allocated,
                                    !.startDeviceToPod = deviceToPod]]
    /\ UNCHANGED <<mig, sync, snap, allocated, deviceToPod, op, catalogVars, srvVars, recycler>>

\* if !s.allocator.IsAvailable(devID)
HandlerCheck(h) ==
    LET st == handler[h]
        devID == st.ids[st.di]
    IN  /\ st.pc = "check"
        /\ handler' = [handler EXCEPT ![h] =
              IF IsAvailable(allocated, devID)
              THEN [st EXCEPT !.di = st.di + 1, !.pc = HandlerPc(st.ids, st.di + 1)]
              ELSE [st EXCEPT !.pc = "owner"]]
        /\ UNCHANGED <<mig, sync, snap, allocated, deviceToPod, op, catalogVars, srvVars, recycler>>

\* s.isPodActive(s.allocator.GetPodUID(devID)) and the branch on its result
HandlerOwner(h) ==
    LET st == handler[h]
        devID == st.ids[st.di]
        owner == GetPodUID(deviceToPod, devID)
    IN  /\ st.pc = "owner"
        /\ \E lookup \in LookupOutcomes :
              LET active == isPodActive(owner, lookup)
                  branch == UnavailableBranch(active)
              IN  handler' = [handler EXCEPT ![h] =
                      [st EXCEPT !.pc = branch,
                                 !.err = IF branch = "failed" THEN ErrAlreadyAllocated
                                         ELSE st.err,
                                 !.report = [dev |-> devID, owner |-> owner,
                                             active |-> active, made |-> TRUE]]]
        /\ UNCHANGED <<mig, sync, snap, allocated, deviceToPod, op, catalogVars, srvVars, recycler>>

\* s.allocator.Deallocate([]string{devID})
HandlerReclaim(h) ==
    LET st == handler[h]
        devID == st.ids[st.di]
        r == Deallocate(allocated, deviceToPod, <<devID>>)
    IN  /\ st.pc = "reclaim"
        /\ allocated' = r.allocated
        /\ deviceToPod' = r.deviceToPod
        /\ handler' = [handler EXCEPT ![h] =
              [st EXCEPT !.di = st.di + 1, !.pc = HandlerPc(st.ids, st.di + 1),
                         !.reclaimed = st.reclaimed \cup {devID}]]
        /\ UNCHANGED <<mig, sync, snap, op, catalogVars, srvVars, recycler>>

\* s.allocator.Allocate(containerReq.DevicesIDs, podUID); on success the Envs of
\* the container response and its append to response.ContainerResponses
HandlerCommit(h) ==
    LET st == handler[h]
        r == Allocate(allocated, deviceToPod, st.ids, st.podUID)
    IN  /\ st.pc = "commit"
        /\ allocated' = r.allocated
        /\ deviceToPod' = r.deviceToPod
        /\ handler' = [handler EXCEPT ![h] =
              IF r.err # ErrNone
              THEN [st EXCEPT !.pc = "failed", !.err = ErrAllocationFailed]
              ELSE [st EXCEPT !.pc = IF st.ci = st.n THEN "ok" ELSE "next",
                              !.containerResp = [set |-> TRUE,
                                                 env |-> VisibleDevices(st.ids)],
                              !.nresp = st.nresp + 1,
                              !.committed = st.committed \cup Range(st.ids)]]
        /\ UNCHANGED <<mig, sync, snap, op, catalogVars, srvVars, recycler>>

\* The loop moves to the next container of the request, with a new containerResp.
HandlerNext(h) ==
    LET st == handler[h]
    IN  /\ st.pc = "next"
        /\ \E next \in IdLists :
              handler' = [handler EXCEPT ![h] =
                  [st EXCEPT !.ci = st.ci + 1, !.ids = next, !.di = 1,
                             !.pc = HandlerPc(next, 1),
                             !.containerResp = NoContainerResp]]
        /\ UNCHANGED <<mig, sync, snap, allocated, deviceToPod, op, catalogVars, srvVars, recycler>>

\* The call returns (the response or the error) and its goroutine ends.
HandlerReturn(h) ==
    /\ handler[h].pc \in {"ok", "failed"}
    /\ handler' = [handler EXCEPT ![h] = IdleHandler]
    /\ UNCHANGED <<mig, sync, snap, allocated, deviceToPod, op, catalogVars, srvVars, recycler>>

\* ------------------------------------------------ allocator API, called directly

\* --------------------------------------------------------- ResourceRecycler

\* The goroutine Start launches, waiting for its first tick.
RecyclerWaiting == [RecyclerOff EXCEPT !.pc = "wait"]

\* ResourceRecycler, case <-ticker.C, up to the Deallocate call: the snapshot of
\* GetAllocationMap, then for every entry the empty-owner test and isPodActive;
\* lookups is what the pod lookup gives for the owner of each device.  With nothing
\* to release the pass ends here.
RecyclerTick ==
    LET allocatedMap == GetAllocationMap(deviceToPod)
    IN  /\ recycler.pc = "wait"
        /\ \E lookups \in [DOMAIN allocatedMap -> LookupOutcomes] :
              LET toRelease == {d \in DOMAIN allocatedMap :
                                   \/ allocatedMap[d] = ""
                                   \/ ~isPodActive(allocatedMap[d], lookups[d])}
              IN  recycler' = IF toRelease = {}
                              THEN RecyclerWaiting
                              ELSE [pc |-> "release", snapshot |-> allocatedMap,
                                    allocatedThen |-> allocated, toRelease |-> toRelease]
        /\ UNCHANGED <<mig, sync, snap, allocVars, op, handler, catalogVars, srvVars>>

\* ResourceRecycler: s.allocator.Deallocate(toRelease), the end of the pass.
RecyclerRelease ==
    LET r == Deallocate(allocated, deviceToPod, SortedSeq(recycler.toRelease))
    IN  /\ recycler.pc = "release"
        /\ allocated' = r.allocated
        /\ deviceToPod' = r.deviceToPod
        /\ recycler' = RecyclerWaiting
        /\ UNCHANGED <<mig, sync, snap, op, handler, catalogVars, srvVars>>

\* ResourceRecycler, case <-ctx.Done()
RecyclerCancelled ==
    /\ recycler.pc = "wait"
    /\ sig.ctxDone
    /\ recycler' = [recycler EXCEPT !.pc = "stopped"]
    /\ UNCHANGED <<mig, sync, snap, allocVars, op, handler, catalogVars, srvVars>>

\* The allocator.Allocate call of an Allocate request whose devices are all free.
ServeAllocate ==
    \E ids \in IdLists, podUID \in OwnerTokens :
        LET r == Allocate(allocated, deviceToPod, ids, podUID)
        IN  /\ allocated' = r.allocated
            /\ deviceToPod' = r.deviceToPod
            /\ UNCHANGED <<mig, sync, snap, op, handler, catalogVars, srvVars, recycler>>

\* GetAllocationMap called through the API.
CallGetAllocationMap ==
    /\ snap' = [ref |-> SnapshotStorage,
                map |-> IF SnapshotStorage = "copy"
                        THEN GetAllocationMap(deviceToPod) ELSE << >>,
                gen |-> 1 - snap.gen, edits |-> snap.edits]
    /\ UNCHANGED <<mig, sync, allocVars, op, handler, catalogVars, srvVars, recycler>>

\* The caller writes into the map it was handed: sets or deletes an entry.
CallerWritesSnapshot ==
    /\ snap.ref # "none"
    /\ \E d \in Devices, owner \in OwnerTokens \cup {"none"} :
          IF snap.ref = "alias"
          THEN /\ deviceToPod' = MapWrite(deviceToPod, d, owner)
               /\ snap' = [snap EXCEPT !.edits = 1 - @]
               /\ UNCHANGED allocated
          ELSE /\ snap' = [snap EXCEPT !.map = MapWrite(@, d, owner), !.edits = 1 - @]
               /\ UNCHANGED allocVars
    /\ UNCHANGED <<mig, sync, op, handler, catalogVars, srvVars, recycler>>

\* The allocator.Deallocate call of the recycler or of a reclaiming Allocate request.
ReleaseDevices ==
    \E ids \in IdLists :
        LET r == Deallocate(allocated, deviceToPod, ids)
        IN  /\ allocated' = r.allocated
            /\ deviceToPod' = r.deviceToPod
            /\ UNCHANGED <<mig, sync, snap, op, handler, catalogVars, srvVars, recycler>>

\* The CleanupOrphanedDevices call of a push that discovered the devices of D.
PushCleanup ==
    \E D \in SUBSET Devices :
        LET r == CleanupOrphanedDevices(allocated, deviceToPod, D)
        IN  /\ allocated' = r.allocated
            /\ deviceToPod' = r.deviceToPod
            /\ UNCHANGED <<mig, sync, snap, op, handler, catalogVars, srvVars, recycler>>

\* NewSimpleAllocator alone: no server, no RPC in flight.
InitAllocator ==
    /\ allocated = {}
    /\ deviceToPod = << >>
    /\ op = NoOp
    /\ handler = << >>
    /\ catalog = NewNVIDIAManager
    /\ hw = NoHardware
    /\ dcall = NoDiscoverCall
    /\ server = NewServer
    /\ watch = << >>
    /\ healthChan = <<>>
    /\ hc = [pc |-> "off", devices |-> <<>>, idx |-> 1]
    /\ sig = [stop |-> FALSE, ctxDone |-> FALSE]
    /\ recycler = RecyclerOff
    /\ snap = NoSnapshot
    /\ mig = NoMIG
    /\ sync = NoSync

CallAllocate ==
    \E ids \in IdLists, podUID \in OwnerTokens :
        LET r == Allocate(allocated, deviceToPod, ids, podUID)
        IN  /\ allocated' = r.allocated
            /\ deviceToPod' = r.deviceToPod
            /\ op' = [name |-> "Allocate", ids |-> ids, podUID |-> podUID,
                      discovered |-> {}, err |-> r.err, hit |-> FALSE]
            /\ UNCHANGED <<mig, sync, snap, handler, catalogVars, srvVars, recycler>>

CallDeallocate ==
    \E ids \in IdLists :
        LET r == Deallocate(allocated, deviceToPod, ids)
        IN  /\ allocated' = r.allocated
            /\ deviceToPod' = r.deviceToPod
            /\ op' = [name |-> "Deallocate", ids |-> ids, podUID |-> "",
                      discovered |-> {}, err |-> ErrNone,
                      hit |-> Range(ids) \cap allocated # {}]
            /\ UNCHANGED <<mig, sync, snap, handler, catalogVars, srvVars, recycler>>

CallCleanupOrphanedDevices ==
    \E discoveredIDs \in SUBSET Devices :
        LET r == CleanupOrphanedDevices(allocated, deviceToPod, discoveredIDs)
        IN  /\ allocated' = r.allocated
            /\ deviceToPod' = r.deviceToPod
            /\ op' = [name |-> "CleanupOrphanedDevices", ids |-> <<>>, podUID |-> "",
                      discovered |-> discoveredIDs, err |-> ErrNone, hit |-> FALSE]
            /\ UNCHANGED <<mig, sync, snap, handler, catalogVars, srvVars, recycler>>

NextAllocator == CallAllocate \/ CallDeallocate \/ CallCleanupOrphanedDevices

\* The allocator driven by arbitrary sequences of its three mutating calls.
SpecAllocator == InitAllocator /\ [][NextAllocator]_vars

\* The server with one Allocate call in flight at a time.
InitHandler ==
    /\ allocated = {}
    /\ deviceToPod = << >>
    /\ op = NoOp
    /\ handler = [h \in {"h1"} |-> IdleHandler]
    /\ catalog = NewNVIDIAManager
    /\ hw = NoHardware
    /\ dcall = NoDiscoverCall
    /\ server = NewServer
    /\ watch = << >>
    /\ healthChan = <<>>
    /\ hc = [pc |-> "off", devices |-> <<>>, idx |-> 1]
    /\ sig = [stop |-> FALSE, ctxDone |-> FALSE]
    /\ recycler = RecyclerOff
    /\ snap = NoSnapshot
    /\ mig = NoMIG
    /\ sync = NoSync

NextHandler ==
    \/ \E h \in DOMAIN handler : HandlerStart(h)
    \/ \E h \in DOMAIN handler : HandlerCheck(h)
    \/ \E h \in DOMAIN handler : HandlerOwner(h)
    \/ \E h \in DOMAIN handler : HandlerReclaim(h)
    \/ \E h \in DOMAIN handler : HandlerCommit(h)
    \/ \E h \in DOMAIN handler : HandlerNext(h)
    \/ \E h \in DOMAIN handler : HandlerReturn(h)

\* Allocate requests served one after another.
SpecHandler == InitHandler /\ [][NextHandler]_vars

\* A manager alone, with callers of DiscoverGPUs, the clock and the hardware.
InitCatalog ==
    /\ allocated = {}
    /\ deviceToPod = << >>
    /\ op = NoOp
    /\ handler = << >>
    /\ catalog = NewNVIDIAManager
    /\ hw = NoHardware
    /\ dcall = NoDiscoverCall
    /\ server = NewServer
    /\ watch = << >>
    /\ healthChan = <<>>
    /\ hc = [pc |-> "off", devices |-> <<>>, idx |-> 1]
    /\ sig = [stop |-> FALSE, ctxDone |-> FALSE]
    /\ recycler = RecyclerOff
    /\ snap = NoSnapshot
    /\ mig = NoMIG
    /\ sync = NoSync

NextCatalog == CallDiscoverGPUs \/ TimePasses \/ HardwareChanges

SpecCatalog == InitCatalog /\ [][NextCatalog]_vars

\* A running server on a node whose GPUs are all listed: one kubelet stream, the
\* HealthCheck goroutine, the clock, and GPUs that stop and start answering queries.
InitWatch ==
    /\ allocated = {}
    /\ deviceToPod = << >>
    /\ op = NoOp
    /\ handler = << >>
    /\ catalog = NewNVIDIAManager
    /\ hw = [present |-> Devices, healthy |-> Devices]
    /\ dcall = NoDiscoverCall
    /\ server = NewServer
    /\ watch = [w \in {"w1"} |-> NoWatch]
    /\ healthChan = <<>>
    /\ hc = [pc |-> "wait", devices |-> <<>>, idx |-> 1]
    /\ sig = [stop |-> FALSE, ctxDone |-> FALSE]
    /\ recycler = RecyclerOff
    /\ snap = NoSnapshot
    /\ mig = NoMIG
    /\ sync = NoSync

NextWatch ==
    /\ ~Crashed
    /\ \/ \E w \in DOMAIN watch : WatchConnect(w)
       \/ \E w \in DOMAIN watch : WatchUpdate(w)
       \/ \E w \in DOMAIN watch : WatchToolReturns(w)
       \/ \E w \in DOMAIN watch : WatchDiscovered(w)
       \/ \E w \in DOMAIN watch : WatchCleanup(w)
       \/ \E w \in DOMAIN watch : WatchWriteDeviceMap(w)
       \/ \E w \in DOMAIN watch : WatchCheckHealth(w)
       \/ \E w \in DOMAIN watch : WatchQueryReturns(w)
       \/ \E w \in DOMAIN watch : WatchCheckHealthFatal(w)
       \/ \E w \in DOMAIN watch : WatchSend(w)
       \/ \E w \in DOMAIN watch : WatchTickerFires(w)
       \/ \E w \in DOMAIN watch : WatchSelectTick(w)
       \/ \E w \in DOMAIN watch : WatchSelectHealth(w)
       \/ \E w \in DOMAIN watch : WatchReturn(w)
       \/ HealthCheckTick
       \/ HealthCheckToolReturns
       \/ HealthCheckDiscovered
       \/ HealthCheckScan
       \/ HealthCheckQuery
       \/ HealthCheckScanFatal
       \/ HealthCheckSend
       \/ CacheExpires
       \/ HealthChanges

SpecWatch == InitWatch /\ [][NextWatch]_vars

\* One kubelet stream of a running server while Allocate requests are served and the
\* hardware changes.
InitOrphan ==
    /\ allocated = {}
    /\ deviceToPod = << >>
    /\ op = NoOp
    /\ handler = << >>
    /\ catalog = NewNVIDIAManager
    /\ hw = NoHardware
    /\ dcall = NoDiscoverCall
    /\ server = NewServer
    /\ watch = [w \in {"w1"} |-> NoWatch]
    /\ healthChan = <<>>
    /\ hc = [pc |-> "off", devices |-> <<>>, idx |-> 1]
    /\ sig = [stop |-> FALSE, ctxDone |-> FALSE]
    /\ recycler = RecyclerOff
    /\ snap = NoSnapshot
    /\ mig = NoMIG
    /\ sync = NoSync

NextOrphan ==
    \/ \E w \in DOMAIN watch : WatchConnect(w)
    \/ \E w \in DOMAIN watch : WatchUpdate(w)
    \/ \E w \in DOMAIN watch : WatchToolReturns(w)
    \/ \E w \in DOMAIN watch : WatchDiscovered(w)
    \/ \E w \in DOMAIN watch : WatchCleanup(w)
    \/ \E w \in DOMAIN watch : WatchWriteDeviceMap(w)
    \/ \E w \in DOMAIN watch : WatchCheckHealth(w)
    \/ \E w \in DOMAIN watch : WatchQueryReturns(w)
    \/ \E w \in DOMAIN watch : WatchSend(w)
    \/ \E w \in DOMAIN watch : WatchTickerFires(w)
    \/ \E w \in DOMAIN watch : WatchSelectTick(w)
    \/ \E w \in DOMAIN watch : WatchReturn(w)
    \/ ServeAllocate
    \/ CacheExpires
    \/ HardwareChanges

SpecOrphan == InitOrphan /\ [][NextOrphan]_vars

\* The recycler of a running server next to Allocate requests and pushes.
InitRecycler ==
    /\ allocated = {}
    /\ deviceToPod = << >>
    /\ op = NoOp
    /\ handler = << >>
    /\ catalog = NewNVIDIAManager
    /\ hw = NoHardware
    /\ dcall = NoDiscoverCall
    /\ server = NewServer
    /\ watch = << >>
    /\ healthChan = <<>>
    /\ hc = [pc |-> "off", devices |-> <<>>, idx |-> 1]
    /\ sig = [stop |-> FALSE, ctxDone |-> FALSE]
    /\ recycler = RecyclerWaiting
    /\ snap = NoSnapshot
    /\ mig = NoMIG
    /\ sync = NoSync

NextRecycler ==
    \/ RecyclerTick
    \/ RecyclerRelease
    \/ ServeAllocate
    \/ PushCleanup

SpecRecycler == InitRecycler /\ [][NextRecycler]_vars

\* One kubelet stream of a running server until main shuts the plugin down.  A started
\* updateDeviceList finishes; Go's select picks among its ready cases at random, so a
\* closed stop channel that is ready again and again is eventually picked.
InitStop ==
    /\ allocated = {}
    /\ deviceToPod = << >>
    /\ op = NoOp
    /\ handler = << >>
    /\ catalog = NewNVIDIAManager
    /\ hw = NoHardware
    /\ dcall = NoDiscoverCall
    /\ server = NewServer
    /\ watch = [w \in {"w1"} |-> NoWatch]
    /\ healthChan = <<>>
    /\ hc = [pc |-> "off", devices |-> <<>>, idx |-> 1]
    /\ sig = [stop |-> FALSE, ctxDone |-> FALSE]
    /\ recycler = RecyclerOff
    /\ snap = NoSnapshot
    /\ mig = NoMIG
    /\ sync = NoSync

NextStop ==
    \/ \E w \in DOMAIN watch : WatchConnect(w)
    \/ \E w \in DOMAIN watch : WatchUpdate(w)
    \/ \E w \in DOMAIN watch : WatchToolReturns(w)
    \/ \E w \in DOMAIN watch : WatchDiscovered(w)
    \/ \E w \in DOMAIN watch : WatchCleanup(w)
    \/ \E w \in DOMAIN watch : WatchWriteDeviceMap(w)
    \/ \E w \in DOMAIN watch : WatchCheckHealth(w)
    \/ \E w \in DOMAIN watch : WatchQueryReturns(w)
    \/ \E w \in DOMAIN watch : WatchSend(w)
    \/ \E w \in DOMAIN watch : WatchTickerFires(w)
    \/ \E w \in DOMAIN watch : WatchSelectTick(w)
    \/ \E w \in DOMAIN watch : WatchSelectStop(w)
    \/ \E w \in DOMAIN watch : WatchReturn(w)
    \/ MainCancel
    \/ MainStop
    \/ CacheExpires
    \/ HardwareChanges

SpecStop ==
    /\ InitStop
    /\ [][NextStop]_vars
    /\ WF_vars(WatchUpdate("w1"))
    /\ WF_vars(WatchToolReturns("w1"))
    /\ WF_vars(WatchDiscovered("w1"))
    /\ WF_vars(WatchCleanup("w1"))
    /\ WF_vars(WatchWriteDeviceMap("w1"))
    /\ WF_vars(WatchCheckHealth("w1"))
    /\ WF_vars(WatchQueryReturns("w1"))
    /\ WF_vars(WatchSend("w1"))
    /\ SF_vars(WatchSelectStop("w1"))

\* The two background tasks of a running server, with no kubelet stream open, until
\* main cancels the shared context.  Every step a task can take it eventually takes;
\* the ready ctx.Done case of a select is eventually picked.
InitCancel ==
    /\ allocated = {}
    /\ deviceToPod = << >>
    /\ op = NoOp
    /\ handler = << >>
    /\ catalog = NewNVIDIAManager
    /\ hw = NoHardware
    /\ dcall = NoDiscoverCall
    /\ server = NewServer
    /\ watch = << >>
    /\ healthChan = <<>>
    /\ hc = [pc |-> "wait", devices |-> <<>>, idx |-> 1]
    /\ sig = [stop |-> FALSE, ctxDone |-> FALSE]
    /\ recycler = RecyclerWaiting
    /\ snap = NoSnapshot
    /\ mig = NoMIG
    /\ sync = NoSync

NextCancel ==
    \/ HealthCheckTick
    \/ HealthCheckToolReturns
    \/ HealthCheckDiscovered
    \/ HealthCheckScan
    \/ HealthCheckQuery
    \/ HealthCheckSend
    \/ HealthCheckCancelled
    \/ RecyclerTick
    \/ RecyclerRelease
    \/ RecyclerCancelled
    \/ ServeAllocate
    \/ MainCancel
    \/ MainStop
    \/ CacheExpires
    \/ HardwareChanges
    \/ HealthChanges

SpecCancel ==
    /\ InitCancel
    /\ [][NextCancel]_vars
    /\ WF_vars(HealthCheckToolReturns)
    /\ WF_vars(HealthCheckDiscovered)
    /\ WF_vars(HealthCheckScan)
    /\ WF_vars(HealthCheckQuery)
    /\ WF_vars(HealthCheckSend)
    /\ SF_vars(HealthCheckCancelled)
    /\ WF_vars(RecyclerRelease)
    /\ SF_vars(RecyclerCancelled)

\* A caller holding the map GetAllocationMap returned while the allocator is used.
InitSnapshot ==
    /\ allocated = {}
    /\ deviceToPod = << >>
    /\ op = NoOp
    /\ handler = << >>
    /\ catalog = NewNVIDIAManager
    /\ hw = NoHardware
    /\ dcall = NoDiscoverCall
    /\ server = NewServer
    /\ watch = << >>
    /\ healthChan = <<>>
    /\ hc = [pc |-> "off", devices |-> <<>>, idx |-> 1]
    /\ sig = [stop |-> FALSE, ctxDone |-> FALSE]
    /\ recycler = RecyclerOff
    /\ snap = NoSnapshot
    /\ mig = NoMIG
    /\ sync = NoSync

NextSnapshot ==
    \/ CallGetAllocationMap
    \/ CallerWritesSnapshot
    \/ ServeAllocate
    \/ ReleaseDevices
    \/ PushCleanup

SpecSnapshot == InitSnapshot /\ [][NextSnapshot]_vars

\* CheckHealth called on arbitrary device maps and query results.
InitHealth ==
    /\ allocated = {}
    /\ deviceToPod = << >>
    /\ op = NoOp
    /\ handler = << >>
    /\ catalog = NewNVIDIAManager
    /\ hw = NoHardware
    /\ dcall = NoDiscoverCall
    /\ server = NewServer
    /\ watch = << >>
    /\ healthChan = <<>>
    /\ hc = [pc |-> "off", devices |-> <<>>, idx |-> 1]
    /\ sig = [stop |-> FALSE, ctxDone |-> FALSE]
    /\ recycler = RecyclerOff
    /\ snap = NoSnapshot
    /\ mig = NoMIG
    /\ sync = NoSync

NextHealth == CallCheckHealth

SpecHealth == InitHealth /\ [][NextHealth]_vars

\* ------------------------------------------------------------------ MIGManager
\* A profile is a string, modelled as a sequence of one-character strings.
DigitChars == <<"0", "1", "2", "3", "4", "5", "6", "7", "8", "9">>
Base == 10
MBPerGB == 1024

\* strings.Split(str, sep) for a one-character separator: always at least one token.
RECURSIVE Split(_, _)
Split(str, sep) ==
    IF \A i \in 1..Len(str) : str[i] # sep
    THEN <<str>>
    ELSE LET k == CHOOSE i \in 1..Len(str) :
                      /\ str[i] = sep
                      /\ \A j \in 1..(i - 1) : str[j] # sep
         IN  <<SubSeq(str, 1, k - 1)>> \o Split(SubSeq(str, k + 1, Len(str)), sep)

HasSuffix(str, suffix) ==
    /\ Len(str) >= Len(suffix)
    /\ SubSeq(str, Len(str) - Len(suffix) + 1, Len(str)) = suffix

TrimSuffix(str, suffix) ==
    IF HasSuffix(str, suffix) THEN SubSeq(str, 1, Len(str) - Len(suffix)) ELSE str

DigitValue(c) == (CHOOSE i \in 1..Len(DigitChars) : DigitChars[i] = c) - 1

\* strconv.ParseUint(str, 10, 64): an error for the empty string and for any character
\* that is not a decimal digit (a sign included).
RECURSIVE ParseDigits(_, _)
ParseDigits(str, acc) ==
    IF str = <<>> THEN acc
    ELSE ParseDigits(Tail(str), acc * Base + DigitValue(Head(str)))

ParseUint(str) ==
    IF str = <<>> \/ \E i \in 1..Len(str) : str[i] \notin Range(DigitChars)
    THEN [err |-> TRUE, val |-> 0]
    ELSE [err |-> FALSE, val |-> ParseDigits(str, 0)]

\* A getProfileMemoryReq that knows only the "gb" suffix (a plausible slip).
getProfileMemoryReqGbOnly(profile) ==
    LET parts == Split(profile, ".")
    IN  IF Len(parts) < 2 THEN 0
        ELSE LET memPart == IF HasSuffix(parts[2], <<"g", "b">>)
                            THEN TrimSuffix(parts[2], <<"g", "b">>)
                            ELSE parts[2]
                 parsed == ParseUint(memPart)
             IN  IF parsed.err THEN 0 ELSE parsed.val * MBPerGB

\* MIGManager.getProfileMemoryReq, for the profile given.
getProfileMemoryReq(profile) ==
    LET parts == Split(profile, ".")
    IN  IF Len(parts) < 2 THEN 0
        ELSE LET memPart == IF HasSuffix(parts[2], <<"g", "b">>)
                            THEN TrimSuffix(parts[2], <<"g", "b">>)
                            ELSE IF HasSuffix(parts[2], <<"g">>)
                                 THEN TrimSuffix(parts[2], <<"g">>)
                                 ELSE parts[2]
                 parsed == ParseUint(memPart)
             IN  IF parsed.err THEN 0 ELSE parsed.val * MBPerGB

\* The profiles tried: a compute token, then possibly a size token made of a sign, a
\* run of digits and a suffix, then possibly one more token.
ComputeTokens == {<<"3", "g">>, <<"1", "g">>}
Signs == {<<>>, <<"-">>}
DigitRuns == SeqsUpTo(Range(DigitChars), MaxDigits)
Suffixes == {<<>>, <<"g">>, <<"g", "b">>, <<"b">>, <<"b", "g">>, <<"m", "b">>}

\* getProfileMemoryReq called on a manager configured with one of these profiles
\* (one call per behaviour: the function keeps no state between calls).
CallGetProfileMemoryReq ==
    /\ dcall = NoDiscoverCall
    /\ \E compute \in ComputeTokens, sign \in Signs, digits \in DigitRuns,
       suffix \in Suffixes, ntok \in 1..3 :
        LET size == sign \o digits \o suffix
            profile == IF ntok = 1 THEN compute
                       ELSE IF ntok = 2 THEN compute \o <<".">> \o size
                       ELSE compute \o <<".">> \o size \o <<".", "x">>
        IN  /\ dcall' = [name |-> "getProfileMemoryReq", profile |-> profile,
                         ntok |-> ntok, sign |-> sign, digits |-> digits,
                         suffix |-> suffix, memMB |-> getProfileMemoryReq(profile)]
            /\ UNCHANGED <<mig, sync, snap, allocVars, op, handler, catalog, hw, srvVars, recycler>>

\* getProfileMemoryReq called on arbitrary profiles.
InitProfile ==
    /\ allocated = {}
    /\ deviceToPod = << >>
    /\ op = NoOp
    /\ handler = << >>
    /\ catalog = NewNVIDIAManager
    /\ hw = NoHardware
    /\ dcall = NoDiscoverCall
    /\ server = NewServer
    /\ watch = << >>
    /\ healthChan = <<>>
    /\ hc = [pc |-> "off", devices |-> <<>>, idx |-> 1]
    /\ sig = [stop |-> FALSE, ctxDone |-> FALSE]
    /\ recycler = RecyclerOff
    /\ snap = NoSnapshot
    /\ mig = NoMIG
    /\ sync = NoSync

NextProfile == CallGetProfileMemoryReq

SpecProfile == InitProfile /\ [][NextProfile]_vars

\* ------------------------------------------------------------------ MIGManager.Configure
\* GPU indexes as nvidia-smi lists them; a call without "-i" addresses all of them.
GPUs == 1..NumGPUs
AllGPUs == 0

P3g20gb == <<"3", "g", ".", "2", "0", "g", "b">>
P1g10gb == <<"1", "g", ".", "1", "0", "g", "b">>
P2g20gb == <<"2", "g", ".", "2", "0", "g", "b">>
P1g == <<"1", "g">>
Profiles == {P3g20gb, P1g10gb, P2g20gb, P1g}

\* The profile table "nvidia-smi mig -lgip" prints: names and numeric IDs.
ProfileTable == [p \in {P3g20gb, P1g10gb} |-> IF p = P3g20gb THEN 9 ELSE 19]

\* Memory in MB; the GPUs of a node are of one model.
MemSizes == {20480, 40960}
NodeMemories == {[g \in GPUs |-> m] : m \in MemSizes}

\* The tool calls of a pass that may fail; at most one (gpu, step) fails, every time.
Steps == {"mode", "enable", "lgi", "dci", "dgi", "mem", "lgip", "cgi"}
NoFault == [gpu |-> AllGPUs, step |-> "none"]
Faults == {NoFault} \cup {[gpu |-> AllGPUs, step |-> "list"]}
              \cup [gpu : GPUs, step : Steps]
Fails(tool, g, step) == tool.failAt = [gpu |-> g, step |-> step]

\* One runNvidiaSmiCommand call: the GPU being visited when it was made, the command,
\* the GPU named after "-i" (AllGPUs when there is none), the count and profile ID of a
\* creation argument "count*profileID", and whether it returned without error.
Call(visit, cmd, target, k, pid, ok) ==
    [visit |-> visit, cmd |-> cmd, gpu |-> target, count |-> k, profileID |-> pid,
     ok |-> ok]

\* The tool's side.  A GPU has its MIG mode, its GPU instances and its compute
\* instances; a GPU instance cannot be destroyed while compute instances remain, and a
\* GPU takes k more instances of a profile only while they fit its memory.
ProfileMemoryReq == [p \in Profiles |-> getProfileMemoryReq(p)]

Capacity(mem, profile) ==
    IF ProfileMemoryReq[profile] = 0 THEN 0 ELSE mem \div ProfileMemoryReq[profile]

ToolEnable(gpus, g) == [gpus EXCEPT ![g].mode = TRUE]

ToolDestroyCI(gpus, g) == [gpus EXCEPT ![g].ci = 0]

ToolDestroyGI(gpus, g) ==
    IF gpus[g].ci > 0 THEN [ok |-> FALSE, gpus |-> gpus]
    ELSE [ok |-> TRUE, gpus |-> [gpus EXCEPT ![g].gi = 0]]

ToolCreate(tool, gpus, profile, k) ==
    LET fits(g) == gpus[g].mode /\ gpus[g].gi + k <= Capacity(tool.mem[g], profile)
    IN  [ok |-> \A g \in GPUs : gpus[g].mode => fits(g),
         gpus |-> [g \in GPUs |-> IF fits(g)
                                  THEN [gpus[g] EXCEPT !.gi = @ + k, !.ci = @ + k]
                                  ELSE gpus[g]]]

\* The answer of "mig -lgi -i gpuIndex" is a text, modelled as the sequence of its
\* lines, each by what getMIGDeviceCount tests of it: "header" contains "GPU Instance
\* ID", "notfound" contains "No GPU instances found", "Not Found" or "No devices were
\* found", "blank" is empty or white space, "row" (an instance) and "text" (a border,
\* a title) are any other line.
LineKinds == {"header", "notfound", "blank", "row", "text"}

\* One "row" line per GPU instance.
Rows(gi) == [i \in 1..gi |-> "row"]

\* The layouts the tool may answer in.  "list": the header line, then the rows, and a
\* "not found" message for a GPU without instances.  "table": header and rows inside
\* a frame, printed also when the GPU has no instance.  "guide": the frame of the MIG
\* user guide, whose titles span two lines, neither holding "GPU Instance ID", and a
\* "not found" message for a GPU without instances.
LgiLayouts == {"list", "table", "guide"}

LgiAnswer(layout, gi) ==
    CASE layout = "list" ->
            IF gi = 0 THEN <<"notfound", "blank">>
            ELSE <<"header">> \o Rows(gi) \o <<"blank">>
      [] layout = "table" ->
            <<"text", "header", "text">> \o Rows(gi) \o <<"text", "blank">>
      [] layout = "guide" ->
            IF gi = 0 THEN <<"notfound", "blank">>
            ELSE <<"text", "text", "text", "text", "text">> \o Rows(gi)
                     \o <<"text", "blank">>

\* getMIGDeviceCount, lines 636-648: the lines that are not blank, counted from the
\* first header line on, header lines left out.
RECURSIVE CountAfterHeader(_, _)
CountAfterHeader(lines, headerFound) ==
    IF lines = <<>> THEN 0
    ELSE IF Head(lines) = "header" THEN CountAfterHeader(Tail(lines), TRUE)
    ELSE (IF headerFound /\ Head(lines) # "blank" THEN 1 ELSE 0)
             + CountAfterHeader(Tail(lines), headerFound)

\* getMIGDeviceCount on what the tool returned: a "not found" text is 0 instances
\* whether or not the call failed, any other failed call is an error.
ParseMIGDeviceCount(toolErr, lines) ==
    IF \E i \in 1..Len(lines) : lines[i] = "notfound" THEN [err |-> FALSE, count |-> 0]
    ELSE IF toolErr THEN [err |-> TRUE, count |-> 0]
    ELSE [err |-> FALSE, count |-> CountAfterHeader(lines, FALSE)]

\* getMIGDeviceCount(gpuIndex): a failing call prints no text.
getMIGDeviceCount(tool, gpus, g) ==
    IF Fails(tool, g, "lgi") THEN ParseMIGDeviceCount(TRUE, <<>>)
    ELSE ParseMIGDeviceCount(FALSE, LgiAnswer(tool.lgi, gpus[g].gi))

\* getGPUMemory
getGPUMemory(tool, g) ==
    IF Fails(tool, g, "mem") THEN [err |-> TRUE, memoryMB |-> 0]
    ELSE [err |-> FALSE, memoryMB |-> tool.mem[g]]

\* getProfileID: the ID of the table row whose name equals the profile.
getProfileID(tool, g, profileName) ==
    IF Fails(tool, g, "lgip") \/ profileName \notin DOMAIN ProfileTable
    THEN [err |-> TRUE, id |-> 0]
    ELSE [err |-> FALSE, id |-> ProfileTable[profileName]]

\* An instance plan that takes the configured count as it is (a plausible slip).
InstancePlanUnclamped(totalMemory, profile, instanceCount) ==
    LET profileMem == getProfileMemoryReq(profile)
        maxInstances == IF profileMem > 0 THEN totalMemory \div profileMem ELSE 0
    IN  IF profileMem > 0 /\ maxInstances = 0
        THEN [skip |-> TRUE, maxInstances |-> 0, createCount |-> 0]
        ELSE LET createCount == IF instanceCount > 0 THEN instanceCount
                                ELSE maxInstances
             IN  [skip |-> createCount = 0, maxInstances |-> maxInstances,
                  createCount |-> createCount]

\* createMIGDevices, lines 518-546: maxInstances and createCount for one GPU; skip
\* when the memory does not hold one instance or no count can be determined.
InstancePlan(totalMemory, profile, instanceCount) ==
    LET profileMem == getProfileMemoryReq(profile)
        maxInstances == IF profileMem > 0 THEN totalMemory \div profileMem ELSE 0
    IN  IF profileMem > 0 /\ maxInstances = 0
        THEN [skip |-> TRUE, maxInstances |-> 0, createCount |-> 0]
        ELSE LET createCount == IF instanceCount > 0
                                THEN IF instanceCount > maxInstances
                                     THEN maxInstances ELSE instanceCount
                                ELSE maxInstances
             IN  [skip |-> createCount = 0, maxInstances |-> maxInstances,
                  createCount |-> createCount]

\* createMIGDevices, lines 500-509: "-dci" then "-dgi", each failure logged only.
DestroyExisting(tool, gpus, g) ==
    LET okCI == ~Fails(tool, g, "dci")
        afterCI == IF okCI THEN ToolDestroyCI(gpus, g) ELSE gpus
        gi == IF Fails(tool, g, "dgi") THEN [ok |-> FALSE, gpus |-> afterCI]
              ELSE ToolDestroyGI(afterCI, g)
    IN  [gpus |-> gi.gpus,
         calls |-> <<Call(g, "dci", g, 0, 0, okCI), Call(g, "dgi", g, 0, 0, gi.ok)>>]

\* The calls made so far, followed by what the rest of the pass does.
AndThen(calls, r) == [gpus |-> r.gpus, calls |-> calls \o r.calls]

\* createMIGDevices, lines 557-566: createCount calls "mig -cgi createCount*profileID -C",
\* none naming the GPU, stopping at the first that fails.
RECURSIVE CreateLoop(_, _, _, _, _, _, _)
CreateLoop(cfg, tool, gpus, g, createCount, profileID, i) ==
    LET Issued(r) ==
            LET c == Call(g, "cgi", AllGPUs, createCount, profileID, r.ok)
            IN  IF ~r.ok THEN [gpus |-> r.gpus, calls |-> <<c>>]
                ELSE AndThen(<<c>>, CreateLoop(cfg, tool, r.gpus, g, createCount,
                                               profileID, i + 1))
    IN  IF i >= createCount THEN [gpus |-> gpus, calls |-> <<>>]
        ELSE Issued(IF Fails(tool, g, "cgi") THEN [ok |-> FALSE, gpus |-> gpus]
                    ELSE ToolCreate(tool, gpus, cfg.profile, createCount))

\* createMIGDevices, lines 511-566 for one GPU: memory, plan, profile ID, creation.
CreateOn(cfg, tool, gpus, g) ==
    LET m == getGPUMemory(tool, g)
        cMem == Call(g, "mem", g, 0, 0, ~m.err)
        p == getProfileID(tool, g, cfg.profile)
        cP == Call(g, "lgip", AllGPUs, 0, 0, ~Fails(tool, g, "lgip"))
        Planned(plan) ==
            IF plan.skip THEN [gpus |-> gpus, calls |-> <<cMem>>]
            ELSE IF p.err THEN [gpus |-> gpus, calls |-> <<cMem, cP>>]
            ELSE AndThen(<<cMem, cP>>,
                         CreateLoop(cfg, tool, gpus, g, plan.createCount, p.id, 0))
    IN  IF m.err THEN [gpus |-> gpus, calls |-> <<cMem>>]
        ELSE Planned(InstancePlan(m.memoryMB, cfg.profile, cfg.instanceCount))

\* createMIGDevices, the body of the loop for GPU g (lines 467-566).
VisitGPU(cfg, tool, gpus, g) ==
    LET cMode == Call(g, "mode", g, 0, 0, ~Fails(tool, g, "mode"))
        needEnable == ~gpus[g].mode
        cEnable == Call(g, "enable", g, 0, 0, ~Fails(tool, g, "enable"))
        calls1 == IF needEnable THEN <<cMode, cEnable>> ELSE <<cMode>>
        gpus1 == IF needEnable THEN ToolEnable(gpus, g) ELSE gpus
        n == getMIGDeviceCount(tool, gpus1, g)
        calls2 == calls1 \o <<Call(g, "lgi", g, 0, 0, ~n.err)>>
        Create(d) == AndThen(calls2 \o d.calls, CreateOn(cfg, tool, d.gpus, g))
    IN  IF Fails(tool, g, "mode") THEN [gpus |-> gpus, calls |-> <<cMode>>]
        ELSE IF needEnable /\ Fails(tool, g, "enable")
        THEN [gpus |-> gpus, calls |-> calls1]
        ELSE IF n.err THEN [gpus |-> gpus1, calls |-> calls2]
        ELSE IF n.count > 0 /\ cfg.skipConfigured
        THEN [gpus |-> gpus1, calls |-> calls2]
        ELSE Create(IF n.count > 0 THEN DestroyExisting(tool, gpus1, g)
                    ELSE [gpus |-> gpus1, calls |-> <<>>])

\* createMIGDevices: the GPUs listed, visited in order.
RECURSIVE VisitFrom(_, _, _, _)
VisitFrom(cfg, tool, gpus, g) ==
    LET Rest(v) == AndThen(v.calls, VisitFrom(cfg, tool, v.gpus, g + 1))
    IN  IF g > NumGPUs THEN [gpus |-> gpus, calls |-> <<>>]
        ELSE Rest(VisitGPU(cfg, tool, gpus, g))

createMIGDevices(cfg, tool, gpus) ==
    IF Fails(tool, AllGPUs, "list")
    THEN [gpus |-> gpus, calls |-> <<Call(AllGPUs, "list", AllGPUs, 0, 0, FALSE)>>]
    ELSE AndThen(<<Call(AllGPUs, "list", AllGPUs, 0, 0, TRUE)>>,
                 VisitFrom(cfg, tool, gpus, 1))

\* MIGManager.Configure: nothing when disabled, nothing when the probe does not say
\* "supported", else one pass of createMIGDevices.
Configure(cfg, tool, gpus) ==
    LET cProbe == Call(AllGPUs, "probe", AllGPUs, 0, 0, tool.support # "error")
    IN  IF ~cfg.enabled THEN [gpus |-> gpus, calls |-> <<>>]
        ELSE IF tool.support # "supported" THEN [gpus |-> gpus, calls |-> <<cProbe>>]
        ELSE AndThen(<<cProbe>>, createMIGDevices(cfg, tool, gpus))

\* NVIDIAManager.ConfigureMIG, a first and a second time.
CallConfigure ==
    /\ mig # NoMIG
    /\ mig.passes \in {"none", "once"}
    /\ LET Pass(r) == [mig EXCEPT !.gpus = r.gpus, !.calls = r.calls,
                                  !.before = mig.gpus,
                                  !.passes = IF @ = "none" THEN "once" ELSE "twice"]
       IN  mig' = Pass(Configure(mig.cfg, mig.tool, mig.gpus))
    /\ UNCHANGED <<sync, snap, allocVars, op, handler, catalogVars, srvVars, recycler>>

\* NewMIGManager with any configuration, on a node with any layout.
Layouts == {[mode |-> FALSE, gi |-> 0, ci |-> 0]}
              \cup {[mode |-> TRUE, gi |-> k, ci |-> k] : k \in 0..MaxInitialGI}

MIGConfigs ==
    [enabled : {TRUE}, profile : Profiles, skipConfigured : BOOLEAN,
     instanceCount : (-1)..MaxInstanceCount]

\* A manager that will run its passes against a tool with at most one failing step,
\* or one that is disabled or whose probe does not answer "supported".
MIGStart(cfg, support, failAt, lgi, mem, gpus) ==
    [cfg |-> cfg,
     tool |-> [support |-> support, failAt |-> failAt, lgi |-> lgi, mem |-> mem],
     gpus |-> gpus, before |-> gpus, calls |-> <<>>, passes |-> "none"]

InitReconcile ==
    /\ allocated = {}
    /\ deviceToPod = << >>
    /\ op = NoOp
    /\ handler = << >>
    /\ catalog = NewNVIDIAManager
    /\ hw = NoHardware
    /\ dcall = NoDiscoverCall
    /\ server = NewServer
    /\ watch = << >>
    /\ healthChan = <<>>
    /\ hc = [pc |-> "off", devices |-> <<>>, idx |-> 1]
    /\ sig = [stop |-> FALSE, ctxDone |-> FALSE]
    /\ recycler = RecyclerOff
    /\ snap = NoSnapshot
    /\ \E cfg \in MIGConfigs, mem \in NodeMemories, gpus \in [GPUs -> Layouts] :
          \/ \E f \in Faults, lgi \in LgiLayouts :
                mig = MIGStart(cfg, "supported", f, lgi, mem, gpus)
          \/ \E en \in BOOLEAN, sup \in {"unsupported", "error"} :
                /\ mem = [g \in GPUs |-> 20480]
                /\ mig = MIGStart([cfg EXCEPT !.enabled = en], sup, NoFault, "list",
                                  mem, gpus)
    /\ sync = NoSync

NextReconcile == CallConfigure

SpecReconcile == InitReconcile /\ [][NextReconcile]_vars

\* The instance plan computed for any memory size, profile and configured count
\* (one call per behaviour: the computation keeps no state).
PlanMemories == {4096, 10240, 20480, 24576, 40960, 49152, 81920}

CallInstancePlan ==
    /\ dcall = NoDiscoverCall
    /\ \E totalMemory \in PlanMemories, profile \in Profiles,
          instanceCount \in (-1)..MaxInstanceCount :
          LET plan == InstancePlan(totalMemory, profile, instanceCount)
          IN  /\ dcall' = [name |-> "InstancePlan", totalMemory |-> totalMemory,
                           planProfile |-> profile, instanceCount |-> instanceCount,
                           skip |-> plan.skip, maxInstances |-> plan.maxInstances,
                           createCount |-> plan.createCount]
              /\ UNCHANGED <<mig, sync, snap, allocVars, op, handler, catalog, hw,
                             srvVars, recycler>>

InitPlan ==
    /\ allocated = {}
    /\ deviceToPod = << >>
    /\ op = NoOp
    /\ handler = << >>
    /\ catalog = NewNVIDIAManager
    /\ hw = NoHardware
    /\ dcall = NoDiscoverCall
    /\ server = NewServer
    /\ watch = << >>
    /\ healthChan = <<>>
    /\ hc = [pc |-> "off", devices |-> <<>>, idx |-> 1]
    /\ sig = [stop |-> FALSE, ctxDone |-> FALSE]
    /\ recycler = RecyclerOff
    /\ snap = NoSnapshot
    /\ mig = NoMIG
    /\ sync = NoSync

NextPlan == CallInstancePlan

SpecPlan == InitPlan /\ [][NextPlan]_vars

\* ------------------------------------------------------------------ the pushed list
Healthy == "Healthy"
Unhealthy == "Unhealthy"

\* A device list builder that lets a device stay Unhealthy once it was seen so
\* (a plausible slip: the remembered state used for more than the log).
BuildDeviceListSticky(devices, healthyNow, lastDeviceState) ==
    LET stateOf(id) == IF id \in healthyNow
                          /\ ~(id \in DOMAIN lastDeviceState
                               /\ lastDeviceState[id] = Unhealthy)
                       THEN Healthy ELSE Unhealthy
    IN  [deviceList |-> [i \in 1..Len(devices) |->
                            [ID |-> devices[i], Health |-> stateOf(devices[i])]],
         changed |-> {id \in Range(devices) :
                         id \in DOMAIN lastDeviceState
                         /\ lastDeviceState[id] # stateOf(id)},
         lastDeviceState |->
             [id \in DOMAIN lastDeviceState \cup Range(devices) |->
                 IF id \in Range(devices) THEN stateOf(id) ELSE lastDeviceState[id]]]

\* updateDeviceList, lines 507-531: one entry per discovered device, in order, with
\* the state CheckHealth gave now (healthyNow: the IDs it answered true for); the
\* remembered state decides only whether the change is logged, and is then replaced.
BuildDeviceList(devices, healthyNow, lastDeviceState) ==
    LET stateOf(id) == IF id \in healthyNow THEN Healthy ELSE Unhealthy
    IN  [deviceList |-> [i \in 1..Len(devices) |->
                            [ID |-> devices[i], Health |-> stateOf(devices[i])]],
         changed |-> {id \in Range(devices) :
                         id \in DOMAIN lastDeviceState
                         /\ lastDeviceState[id] # stateOf(id)},
         lastDeviceState |->
             [id \in DOMAIN lastDeviceState \cup Range(devices) |->
                 IF id \in Range(devices) THEN stateOf(id) ELSE lastDeviceState[id]]]

\* The discovery results: the devices of the node in any order, each once.
DiscoveryResults ==
    {ds \in SeqsUpTo(Devices, NumDevices) :
        \A i, j \in 1..Len(ds) : i # j => ds[i] # ds[j]}

\* The list of one push, for any discovery result, any CheckHealth answers and any
\* remembered states (one push per behaviour).
CallBuildDeviceList ==
    /\ dcall = NoDiscoverCall
    /\ \E devices \in DiscoveryResults, healthyNow \in SUBSET Devices,
          seen \in SUBSET Devices :
          \E last \in [seen -> {Healthy, Unhealthy}] :
              LET r == BuildDeviceList(devices, healthyNow, last)
              IN  /\ dcall' = [name |-> "updateDeviceList", devices |-> devices,
                               healthyNow |-> healthyNow, last |-> last,
                               deviceList |-> r.deviceList, changed |-> r.changed,
                               lastDeviceState |-> r.lastDeviceState]
                  /\ UNCHANGED <<mig, sync, snap, allocVars, op, handler, catalog, hw,
                                 srvVars, recycler>>

InitPush ==
    /\ allocated = {}
    /\ deviceToPod = << >>
    /\ op = NoOp
    /\ handler = << >>
    /\ catalog = NewNVIDIAManager
    /\ hw = NoHardware
    /\ dcall = NoDiscoverCall
    /\ server = NewServer
    /\ watch = << >>
    /\ healthChan = <<>>
    /\ hc = [pc |-> "off", devices |-> <<>>, idx |-> 1]
    /\ sig = [stop |-> FALSE, ctxDone |-> FALSE]
    /\ recycler = RecyclerOff
    /\ snap = NoSnapshot
    /\ mig = NoMIG
    /\ sync = NoSync

NextPush == CallBuildDeviceList

SpecPush == InitPush /\ [][NextPush]_vars

\* ------------------------------------------------------------------ locks and shared memory
\* The goroutines of a running plugin, each followed operation by operation: taking
\* and releasing a lock, reading or writing a field, starting ("call") and finishing
\* ("ret") an external-tool or network call.
Tasks == {"watch1", "watch2", "health", "recycler", "allocate"}

Op(kind, obj) == [kind |-> kind, obj |-> obj]

\* NVIDIAManager.DiscoverGPUs: the lock is taken at entry and released by the defer;
\* with a usable cache the function returns at once.
DiscoverGPUsOps ==
    << Op("lock", "discoverySync"),
       Op("cache", "m.devices"),
       Op("write", "m.deviceMap"),
       Op("call", "nvidia-smi"),
       Op("ret", "nvidia-smi"),
       Op("write", "m.deviceMap"),
       Op("write", "m.devices"),
       Op("unlock", "discoverySync") >>

\* NVIDIAManager.CheckHealth: the map lookup, then the utilization query.
CheckHealthOps ==
    << Op("read", "m.deviceMap"),
       Op("call", "nvidia-smi"),
       Op("ret", "nvidia-smi") >>

\* updateDeviceList, for one device of the list.
UpdateDeviceListOps ==
    DiscoverGPUsOps
    \o << Op("lock", "a.mu"), Op("write", "a.allocated"), Op("unlock", "a.mu"),
          Op("write", "s.deviceMap") >>
    \o CheckHealthOps
    \o << Op("read", "s.lastDeviceState"), Op("write", "s.lastDeviceState"),
          Op("call", "stream.Send"), Op("ret", "stream.Send") >>

\* HealthCheck, one tick, for one device of the list.
HealthCheckOps == DiscoverGPUsOps \o CheckHealthOps

\* ResourceRecycler, one tick: GetAllocationMap, isPodActive, Deallocate.
ResourceRecyclerOps ==
    << Op("rlock", "a.mu"), Op("read", "a.deviceToPod"), Op("runlock", "a.mu"),
       Op("call", "kubeClient"), Op("ret", "kubeClient"),
       Op("lock", "a.mu"), Op("write", "a.allocated"), Op("unlock", "a.mu") >>

\* The Allocate handler: GetPodUID, isPodActive, Deallocate, Allocate.
AllocateOps ==
    << Op("rlock", "a.mu"), Op("read", "a.deviceToPod"), Op("runlock", "a.mu"),
       Op("call", "kubeClient"), Op("ret", "kubeClient"),
       Op("lock", "a.mu"), Op("write", "a.allocated"), Op("unlock", "a.mu"),
       Op("lock", "a.mu"), Op("write", "a.allocated"), Op("unlock", "a.mu") >>

Program(t) ==
    CASE t \in {"watch1", "watch2"} -> UpdateDeviceListOps
      [] t = "health" -> HealthCheckOps
      [] t = "recycler" -> ResourceRecyclerOps
      [] t = "allocate" -> AllocateOps

Locks == {"discoverySync", "a.mu"}

NextOp(t) == Program(t)[sync.pc[t]]

After(t) == IF sync.pc[t] = Len(Program(t)) THEN 1 ELSE sync.pc[t] + 1

\* The position of the "unlock" that ends DiscoverGPUs.
DiscoverReturn == Len(DiscoverGPUsOps)

LocksHeld(t) == {l \in Locks : t \in sync.held[l]}

\* The task has started an external call that has not returned.
InCall(t) == NextOp(t).kind = "ret"

\* One operation of task t.  Lock waits for the lock to be free, RLock for no writer
\* to hold it.
TaskStep(t) ==
    /\ sync # NoSync
    /\ LET o == NextOp(t)
       IN  CASE o.kind = "lock" ->
                  /\ sync.held[o.obj] = {}
                  /\ sync' = [sync EXCEPT !.held[o.obj] = {t}, !.excl[o.obj] = TRUE,
                                          !.pc[t] = After(t)]
             [] o.kind = "rlock" ->
                  /\ ~sync.excl[o.obj]
                  /\ sync' = [sync EXCEPT !.held[o.obj] = @ \cup {t}, !.pc[t] = After(t)]
             [] o.kind \in {"unlock", "runlock"} ->
                  sync' = [sync EXCEPT !.held[o.obj] = @ \ {t}, !.excl[o.obj] = FALSE,
                                       !.pc[t] = After(t)]
             [] o.kind = "cache" ->
                  \E usable \in BOOLEAN :
                      sync' = [sync EXCEPT !.pc[t] = IF usable THEN DiscoverReturn
                                                     ELSE After(t)]
             [] OTHER ->
                  sync' = [sync EXCEPT !.pc[t] = After(t)]
    /\ UNCHANGED <<mig, snap, allocVars, op, handler, catalogVars, srvVars, recycler>>

StartedTasks ==
    [pc |-> [t \in Tasks |-> 1],
     held |-> [l \in Locks |-> {}],
     excl |-> [l \in Locks |-> FALSE]]

InitSync ==
    /\ allocated = {}
    /\ deviceToPod = << >>
    /\ op = NoOp
    /\ handler = << >>
    /\ catalog = NewNVIDIAManager
    /\ hw = NoHardware
    /\ dcall = NoDiscoverCall
    /\ server = NewServer
    /\ watch = << >>
    /\ healthChan = <<>>
    /\ hc = [pc |-> "off", devices |-> <<>>, idx |-> 1]
    /\ sig = [stop |-> FALSE, ctxDone |-> FALSE]
    /\ recycler = RecyclerOff
    /\ snap = NoSnapshot
    /\ mig = NoMIG
    /\ sync = StartedTasks

NextSync == \E t \in Tasks : TaskStep(t)

SpecSync == InitSync /\ [][NextSync]_vars

\* ------------------------------------------------------------------ isPodActive
\* The pods of the cluster by UID: absent, or what a lookup of that pod would show.
PodStatuses == {"absent", "deleting", "Running", "Pending", "Succeeded", "Failed"}

\* The pod isPodActive asks the API server for: Pods("").Get(ctx, "", ...), an empty
\* namespace and an empty name whatever the podUID.
LookupKey(podUID) == [namespace |-> "", name |-> ""]

\* isPodActive called for any owner token on any cluster; lookup is what the Get of
\* LookupKey comes back with (one call per behaviour: the function keeps no state).
CallIsPodActive ==
    /\ dcall = NoDiscoverCall
    /\ \E podUID \in OwnerTokens, cluster \in [Pods -> PodStatuses],
          lookup \in LookupOutcomes :
          /\ dcall' = [livenessOf |-> podUID, cluster |-> cluster,
                       key |-> LookupKey(podUID), lookup |-> lookup,
                       active |-> isPodActive(podUID, lookup)]
          /\ UNCHANGED <<mig, sync, snap, allocVars, op, handler, catalog, hw,
                         srvVars, recycler>>

InitLiveness ==
    /\ allocated = {}
    /\ deviceToPod = << >>
    /\ op = NoOp
    /\ handler = << >>
    /\ catalog = NewNVIDIAManager
    /\ hw = NoHardware
    /\ dcall = NoDiscoverCall
    /\ server = NewServer
    /\ watch = << >>
    /\ healthChan = <<>>
    /\ hc = [pc |-> "off", devices |-> <<>>, idx |-> 1]
    /\ sig = [stop |-> FALSE, ctxDone |-> FALSE]
    /\ recycler = RecyclerOff
    /\ snap = NoSnapshot
    /\ mig = NoMIG
    /\ sync = NoSync

NextLiveness == CallIsPodActive

SpecLiveness == InitLiveness /\ [][NextLiveness]_vars

\* Two Allocate calls in flight at once, each on its own goroutine.
InitRace ==
    /\ allocated = {}
    /\ deviceToPod = << >>
    /\ op = NoOp
    /\ handler = [h \in {"h1", "h2"} |-> IdleHandler]
    /\ catalog = NewNVIDIAManager
    /\ hw = NoHardware
    /\ dcall = NoDiscoverCall
    /\ server = NewServer
    /\ watch = << >>
    /\ healthChan = <<>>
    /\ hc = [pc |-> "off", devices |-> <<>>, idx |-> 1]
    /\ sig = [stop |-> FALSE, ctxDone |-> FALSE]
    /\ recycler = RecyclerOff
    /\ snap = NoSnapshot
    /\ mig = NoMIG
    /\ sync = NoSync

\* A call arrives with one container.
HandlerStartOne(h) ==
    /\ handler[h].pc = "idle"
    /\ \E podUID \in OwnerTokens, ids \in IdLists :
          handler' = [handler EXCEPT ![h] =
              [IdleHandler EXCEPT !.pc = HandlerPc(ids, 1), !.n = 1, !.ids = ids,
                                  !.podUID = podUID,
                                  !.startAllocated = allocated,
                                  !.startDeviceToPod = deviceToPod]]
    /\ UNCHANGED <<mig, sync, snap, allocated, deviceToPod, op, catalogVars, srvVars, recycler>>

NextRace ==
    \/ \E h \in DOMAIN handler : HandlerStartOne(h)
    \/ \E h \in DOMAIN handler : HandlerCheck(h)
    \/ \E h \in DOMAIN handler : HandlerOwner(h)
    \/ \E h \in DOMAIN handler : HandlerReclaim(h)
    \/ \E h \in DOMAIN handler : HandlerCommit(h)
    \/ (\A h \in DOMAIN handler : handler[h].pc = "idle") /\ ServeAllocate

\* Two Allocate requests served concurrently, after any earlier requests that have
\* returned: the steps of the two calls interleave between any two allocator calls.
SpecRace == InitRace /\ [][NextRace]_vars

\* The recycler of a running server while Allocate requests are served.
InitReclaim ==
    /\ allocated = {}
    /\ deviceToPod = << >>
    /\ op = NoOp
    /\ handler = [h \in {"h1"} |-> IdleHandler]
    /\ catalog = NewNVIDIAManager
    /\ hw = NoHardware
    /\ dcall = NoDiscoverCall
    /\ server = NewServer
    /\ watch = << >>
    /\ healthChan = <<>>
    /\ hc = [pc |-> "off", devices |-> <<>>, idx |-> 1]
    /\ sig = [stop |-> FALSE, ctxDone |-> FALSE]
    /\ recycler = RecyclerWaiting
    /\ snap = NoSnapshot
    /\ mig = NoMIG
    /\ sync = NoSync

NextReclaim ==
    \/ \E h \in DOMAIN handler : HandlerStartOne(h)
    \/ \E h \in DOMAIN handler : HandlerCheck(h)
    \/ \E h \in DOMAIN handler : HandlerOwner(h)
    \/ \E h \in DOMAIN handler : HandlerReclaim(h)
    \/ \E h \in DOMAIN handler : HandlerCommit(h)
    \/ \E h \in DOMAIN handler : HandlerReturn(h)
    \/ RecyclerTick
    \/ RecyclerRelease

SpecReclaim == InitReclaim /\ [][NextReclaim]_vars

\* The HealthCheck goroutine over its rounds, with one kubelet stream consuming the
\* health signals, while the hardware changes.
InitRounds ==
    /\ allocated = {}
    /\ deviceToPod = << >>
    /\ op = NoOp
    /\ handler = << >>
    /\ catalog = NewNVIDIAManager
    /\ hw = NoHardware
    /\ dcall = NoChecks
    /\ server = NewServer
    /\ watch = [w \in {"w1"} |-> NoWatch]
    /\ healthChan = <<>>
    /\ hc = [pc |-> "wait", devices |-> <<>>, idx |-> 1]
    /\ sig = [stop |-> FALSE, ctxDone |-> FALSE]
    /\ recycler = RecyclerOff
    /\ snap = NoSnapshot
    /\ mig = NoMIG
    /\ sync = NoSync

NextRounds ==
    /\ ~Crashed
    /\ \/ \E w \in DOMAIN watch : WatchConnect(w)
       \/ \E w \in DOMAIN watch : WatchUpdate(w)
       \/ \E w \in DOMAIN watch : WatchToolReturns(w)
       \/ \E w \in DOMAIN watch : WatchDiscovered(w)
       \/ \E w \in DOMAIN watch : WatchCleanup(w)
       \/ \E w \in DOMAIN watch : WatchWriteDeviceMap(w)
       \/ \E w \in DOMAIN watch : WatchCheckHealth(w)
       \/ \E w \in DOMAIN watch : WatchQueryReturns(w)
       \/ \E w \in DOMAIN watch : WatchCheckHealthFatal(w)
       \/ \E w \in DOMAIN watch : WatchSend(w)
       \/ \E w \in DOMAIN watch : WatchSelectHealth(w)
       \/ \E w \in DOMAIN watch : WatchReturn(w)
       \/ HealthCheckTick
       \/ HealthCheckToolReturns
       \/ HealthCheckDiscovered
       \/ HealthCheckScanNoted
       \/ HealthCheckQueryNoted
       \/ HealthCheckScanFatal
       \/ HealthCheckSend
       \/ CacheExpires
       \/ HardwareChanges
       \/ HealthChanges

SpecRounds == InitRounds /\ [][NextRounds]_vars

\* ================================================================== claims

\* C1: across any sequence of Allocate / Deallocate / CleanupOrphanedDevices calls a
\* device that is allocated before and after a call keeps the owner it had: it can be
\* given to another owner only after a call has removed it from the allocated set.
C1_NoRebindWhileAllocated ==
    [][\A d \in Devices :
          (d \in allocated /\ d \in allocated')
              => GetPodUID(deviceToPod', d) = GetPodUID(deviceToPod, d)]_vars

\* C1 witness: an Allocate naming a device held by another owner has been rejected.
C1_Witness ==
    /\ op.name = "Allocate"
    /\ op.err = ErrDeviceAlreadyAllocated
    /\ \E d \in Range(op.ids) :
          d \in allocated /\ GetPodUID(deviceToPod, d) # op.podUID

\* C2: Allocate(ids, podUID) returns ErrDeviceAlreadyAllocated iff some id of ids is
\* allocated when it is called; a failing call leaves allocated and deviceToPod as they
\* were; a succeeding call leaves every id of ids allocated and bound to podUID.
C2_AllocateAllOrNothing ==
    [][op'.name = "Allocate" =>
          LET ids == op'.ids
              conflict == \E i \in 1..Len(ids) : ids[i] \in allocated
          IN  /\ (op'.err = ErrDeviceAlreadyAllocated) <=> conflict
              /\ (op'.err = ErrNone) <=> ~conflict
              /\ conflict => (allocated' = allocated /\ deviceToPod' = deviceToPod)
              /\ ~conflict =>
                    \A i \in 1..Len(ids) :
                        /\ ids[i] \in allocated'
                        /\ ids[i] \in DOMAIN deviceToPod'
                        /\ deviceToPod'[ids[i]] = op'.podUID]_vars

\* C2 witness: a two-id Allocate failed on one held id while its other id stayed free.
C2_Witness ==
    /\ op.name = "Allocate"
    /\ op.err = ErrDeviceAlreadyAllocated
    /\ Len(op.ids) = 2
    /\ \E i, j \in 1..2 : op.ids[i] \in allocated /\ op.ids[j] \notin allocated

\* C3: right after CleanupOrphanedDevices(D) every key of the allocated set and every
\* key of the map GetAllocationMap returns is a member of D.
C3_CleanupLeavesOnlyDiscovered ==
    op.name = "CleanupOrphanedDevices" =>
        /\ GetAllocatedDevices(allocated) \subseteq op.discovered
        /\ DOMAIN GetAllocationMap(deviceToPod) \subseteq op.discovered

\* C4: in the Allocate handler, for a requested device that is not available: when
\* isPodActive reports its recorded owner active the request fails with the
\* already-allocated error (and fails with that error for no other reason); when it
\* reports the owner not active the handler goes on to Deallocate that device, after
\* which the stale binding is gone (the device is free or bound to the caller), and a
\* request that then succeeds has bound every reclaimed device to the caller.
C4_UnavailableDeviceByOwnerLiveness ==
    \A h \in DOMAIN handler :
        LET st == handler[h]
        IN  /\ (st.report.made /\ st.report.active)
                  => (st.pc = "failed" /\ st.err = ErrAlreadyAllocated)
            /\ (st.pc = "failed" /\ st.err = ErrAlreadyAllocated)
                  => (st.report.made /\ st.report.active)
            /\ st.pc = "reclaim"
                  => /\ st.report.made /\ ~st.report.active
                     /\ st.report.dev = st.ids[st.di]
            /\ \A d \in st.reclaimed :
                  d \notin allocated \/ GetPodUID(deviceToPod, d) = st.podUID
            /\ st.pc = "ok"
                  => \A d \in st.reclaimed :
                        d \in allocated /\ GetPodUID(deviceToPod, d) = st.podUID

\* C4 witness: a request has succeeded after reclaiming a device from another pod whose
\* lookup reported it not active; the device is now bound to the caller.
C4_Witness ==
    \E h \in DOMAIN handler :
        LET st == handler[h]
        IN  /\ st.pc = "ok"
            /\ st.report.made /\ ~st.report.active
            /\ st.report.owner \in Pods /\ st.report.owner # st.podUID
            /\ st.report.dev \in st.reclaimed
            /\ st.report.dev \in allocated
            /\ GetPodUID(deviceToPod, st.report.dev) = st.podUID

\* C5: when an Allocate request has failed because a requested device is held by an
\* active owner, allocated and deviceToPod are what they were when the request began.
C5_FailedRequestMutatesNothing ==
    \A h \in DOMAIN handler :
        LET st == handler[h]
        IN  (st.pc = "failed" /\ st.err = ErrAlreadyAllocated)
                => /\ allocated = st.startAllocated
                   /\ deviceToPod = st.startDeviceToPod

\* C6: on one watch every event taken (the connection, a tick, a consumed health
\* signal) is followed by exactly one discovery and one push before the watch waits
\* again: a watch that starts its update has done neither since the event, a watch
\* past its discovery has done one discovery and no push yet, a watch that waits has
\* done exactly one of each.
C6_OnePushPerEvent ==
    \A w \in DOMAIN watch :
        /\ watch[w].pc \in {"update", "discover"} =>
              /\ watch[w].trigger \in {"connect", "tick", "health"}
              /\ watch[w].discoveries = 0
              /\ watch[w].pushes = 0
        /\ watch[w].pc \in {"cleanup", "health", "check", "query", "send"} =>
              /\ watch[w].trigger \in {"connect", "tick", "health"}
              /\ watch[w].discoveries = 1
              /\ watch[w].pushes = 0
        /\ watch[w].pc = "wait" =>
              /\ watch[w].trigger \in {"connect", "tick", "health"}
              /\ watch[w].discoveries = 1
              /\ watch[w].pushes = 1

\* A watch waits again after a consumed health signal gave its one extra push.
C6_Witness ==
    \E w \in DOMAIN watch :
        /\ watch[w].pc = "wait"
        /\ watch[w].trigger = "health"
        /\ watch[w].pushes = 1
        /\ ~watch[w].tick

\* C7: the health-change channel holds at most one pending signal and a send never
\* blocks the health-check task: whenever the task is at its send, the send can
\* complete.
C7_SignalSendNeverBlocks ==
    /\ Len(healthChan) <= HealthChanCap
    /\ hc.pc = "send" => Len(healthChan) < HealthChanCap

\* C8: a recycler pass with no allocator operation between its snapshot and its
\* Deallocate leaves no entry it marked (empty owner, or owner reported not active)
\* in the allocation map, and keeps every other entry of the snapshot with its owner.
C8_PassLeavesOnlyActiveOwners ==
    [][(/\ recycler.pc = "release"
        /\ recycler'.pc = "wait"
        /\ GetAllocationMap(deviceToPod) = recycler.snapshot
        /\ allocated = recycler.allocatedThen)
       => /\ \A d \in recycler.toRelease : d \notin DOMAIN GetAllocationMap(deviceToPod')
          /\ \A d \in DOMAIN recycler.snapshot \ recycler.toRelease :
                /\ d \in DOMAIN GetAllocationMap(deviceToPod')
                /\ deviceToPod'[d] = recycler.snapshot[d]]_vars

\* C9: a DiscoverGPUs call made less than the TTL after the tool last ran successfully
\* returns the list that run gave, without running the tool; a call made once the TTL
\* has passed (or before any successful run) runs the tool.
C9_CachedWithinTTL ==
    [][dcall'.seq # dcall.seq =>
          LET inWindow == dcall.toolRan /\ catalog.sinceDiscovery < CacheTTL
          IN  /\ inWindow => /\ ~dcall'.invoked
                             /\ dcall'.err = ErrNone
                             /\ dcall'.result = dcall.toolResult
              /\ ~inWindow => dcall'.invoked]_vars

\* C10: right after the cleanup step of a push, every device that still has an
\* allocation entry (in the allocated set or in the device-to-owner map) is in the
\* discovered set of that push.
C10_AllocationsWithinDiscoveredAfterPush ==
    [][\A w \in DOMAIN watch :
          (watch[w].pc = "cleanup" /\ watch'[w].pc = "health")
          => /\ GetAllocatedDevices(allocated') \subseteq Range(watch[w].devices)
             /\ DOMAIN GetAllocationMap(deviceToPod') \subseteq Range(watch[w].devices)]_vars

\* C11: a push that fails, in its discovery or in its send, faults the watch:
\* ListAndWatch has returned that error, the failed push is not counted as a push,
\* and the faulted watch does nothing more until the stream is opened anew.
C11_PushFailureFaultsWatch ==
    [][\A w \in DOMAIN watch :
          /\ watch'[w].err # ErrNone =>
                /\ watch'[w].pc = "faulted"
                /\ watch'[w].err \in {ErrDiscovery, ErrSend}
          /\ (watch[w].pc \in UpdatePcs /\ watch'[w].err # ErrNone) =>
                watch'[w].pushes = watch[w].pushes
          /\ watch[w].pc = "faulted" =>
                \/ watch'[w] = watch[w]
                \/ watch'[w] = NoWatch]_vars

\* A watch faulted by a failing send after a successful discovery.
C11_Witness ==
    \E w \in DOMAIN watch :
        /\ watch[w].pc = "faulted"
        /\ watch[w].err = ErrSend
        /\ watch[w].discoveries = 1
        /\ watch[w].pushes = 0

\* C12 as stated: once stop is raised, every streaming watch eventually is Stopped,
\* having returned no error.
C12_StopAlwaysEndsInStopped ==
    \A w \in {"w1"} :
        (sig.stop /\ Streaming(w))
            ~> (watch[w].pc = "stopped" /\ watch[w].err = ErrNone)

\* C12, amended: once stop is raised, every streaming watch eventually leaves the
\* loop, Stopped with no error or Faulted by a push that failed before the watch
\* took the stop; a watch that took the stop has returned nil and pushes nothing.
C12_StopEndsWatch ==
    /\ \A w \in {"w1"} :
          (sig.stop /\ Streaming(w))
              ~> (watch[w].pc \in {"stopped", "faulted"})
    /\ [][\A w \in DOMAIN watch :
             /\ watch'[w].pc = "stopped" => (sig'.stop /\ watch'[w].err = ErrNone)
             /\ watch[w].pc = "stopped" =>
                   \/ watch'[w] = watch[w]
                   \/ watch'[w] = NoWatch]_vars

\* A watch that streamed, took the stop and returned nil.
C12_Witness ==
    \E w \in DOMAIN watch :
        /\ sig.stop
        /\ watch[w].pc = "stopped"
        /\ watch[w].trigger = "tick"
        /\ watch[w].pushes = 1
        /\ watch[w].err = ErrNone

\* C13: after the shared cancellation signal fires, the health-check task and the
\* recycler task each eventually terminate, whether or not a watch consumes health
\* signals.
C13_CancelTerminatesTasks ==
    /\ sig.ctxDone ~> hc.pc = "stopped"
    /\ sig.ctxDone ~> recycler.pc = "stopped"

\* C14: Deallocate(ids) removes every id of ids that is allocated, from the allocated
\* set and from the device-to-owner map, changes nothing else, and is idempotent: a
\* second Deallocate(ids) leaves the allocated set and the device-to-owner map as the
\* first one left them.
C14_DeallocateIdempotent ==
    [][op'.name = "Deallocate" =>
          LET ids == Range(op'.ids)
              again == Deallocate(allocated', deviceToPod', op'.ids)
          IN  /\ allocated' = allocated \ ids
              /\ DOMAIN deviceToPod' = DOMAIN deviceToPod \ (ids \cap allocated)
              /\ \A d \in DOMAIN deviceToPod' : deviceToPod'[d] = deviceToPod[d]
              /\ again.allocated = allocated'
              /\ again.deviceToPod = deviceToPod'
              /\ (op.name = "Deallocate" /\ op.ids = op'.ids) =>
                    (allocated' = allocated /\ deviceToPod' = deviceToPod)]_vars

\* A Deallocate has released its ids, owner entries included, while another device
\* stays allocated to its owner.
C14_Witness ==
    /\ op.name = "Deallocate"
    /\ op.hit
    /\ Range(op.ids) \cap allocated = {}
    /\ Range(op.ids) \cap DOMAIN deviceToPod = {}
    /\ allocated # {}
    /\ DOMAIN deviceToPod = allocated

\* C15: after any sequence of allocator calls GetPodUID(id) is the empty string for
\* an id that is not allocated, and right after a successful Allocate(ids, podUID) it
\* is podUID for every id of ids.
C15_GetPodUIDMatchesAllocation ==
    \A d \in Devices :
        /\ d \notin GetAllocatedDevices(allocated) => GetPodUID(deviceToPod, d) = ""
        /\ (op.name = "Allocate" /\ op.err = ErrNone /\ d \in Range(op.ids)) =>
              GetPodUID(deviceToPod, d) = op.podUID

\* C16: the map GetAllocationMap returns holds the whole device-to-owner map as it is
\* at the call; no later allocator operation changes what the caller reads in it, and
\* no write of the caller into it changes the allocator's state.
C16_SnapshotIsACopy ==
    [][/\ snap'.gen # snap.gen =>
             SnapshotContents(snap', deviceToPod') = deviceToPod
       /\ (snap'.gen = snap.gen /\ snap'.edits = snap.edits /\ snap.ref # "none") =>
             SnapshotContents(snap', deviceToPod') = SnapshotContents(snap, deviceToPod)
       /\ snap'.edits # snap.edits =>
             (allocated' = allocated /\ deviceToPod' = deviceToPod)]_vars

\* The caller holds a snapshot taken with an entry, has written into it, and the
\* allocator has moved on: the two maps differ.
C16_Witness ==
    /\ snap.ref # "none"
    /\ snap.edits = 1
    /\ DOMAIN SnapshotContents(snap, deviceToPod) # {}
    /\ SnapshotContents(snap, deviceToPod) # deviceToPod
    /\ deviceToPod # << >>

\* C17: in an Allocate request, the response of each container allocated so far has
\* been appended in request order (as many responses as containers done), and the
\* NVIDIA_VISIBLE_DEVICES of the current container's response lists exactly the IDs
\* requested for it, in order, separated by commas; when the request has succeeded
\* there is one response per container and every requested ID is allocated to the
\* caller's pod UID.
C17_ResponsePerContainer ==
    \A h \in DOMAIN handler :
        LET st == handler[h]
            env == st.containerResp.env
        IN  /\ st.pc \in {"check", "owner", "reclaim", "commit"} =>
                  (st.nresp = st.ci - 1 /\ ~st.containerResp.set)
            /\ st.pc \in {"next", "ok"} /\ st.n > 0 =>
                  /\ st.nresp = st.ci
                  /\ st.containerResp.set
                  /\ Len(env) = IF st.ids = <<>> THEN 0 ELSE 2 * Len(st.ids) - 1
                  /\ \A i \in 1..Len(st.ids) : env[2 * i - 1] = st.ids[i]
                  /\ \A i \in 1..(Len(st.ids) - 1) : env[2 * i] = Comma
            /\ st.pc = "ok" =>
                  /\ st.nresp = st.n
                  /\ \A d \in st.committed :
                        d \in allocated /\ GetPodUID(deviceToPod, d) = st.podUID

\* A request of two containers has succeeded; the second asked for two different
\* devices, the higher one first.
C17_Witness ==
    \E h \in DOMAIN handler :
        LET st == handler[h]
        IN  /\ st.pc = "ok"
            /\ st.n = 2
            /\ st.nresp = 2
            /\ Len(st.ids) = 2
            /\ st.ids[1] > st.ids[2]
            /\ st.containerResp.env = <<st.ids[1], Comma, st.ids[2]>>

\* C18: when a later container of a multi-container request fails, the devices
\* committed for the earlier containers of the request are still allocated to the
\* caller's pod UID.
C18_EarlierContainersStayAllocated ==
    \A h \in DOMAIN handler :
        LET st == handler[h]
        IN  (st.pc = "failed" /\ st.ci > 1) =>
                \A d \in st.committed :
                    d \in allocated /\ GetPodUID(deviceToPod, d) = st.podUID

\* C19: CheckHealth(id) is true exactly when id is in the device map and the
\* utilization query returns without error an output that is not blank; the query is
\* made for the device itself, or for the physical GPU of a MIG partition; for an
\* unknown id no query is made.
C19_CheckHealthFailClosed ==
    (DOMAIN dcall = DOMAIN [name |-> 0, deviceMap |-> 0, id |-> 0, toolErr |-> 0,
                            out |-> 0, queried |-> 0, target |-> 0, healthy |-> 0]) =>
        LET known == dcall.id \in DOMAIN dcall.deviceMap
            nonBlank == \E i \in 1..Len(dcall.out) : dcall.out[i] # " "
        IN  /\ dcall.healthy <=> (known /\ ~dcall.toolErr /\ nonBlank)
            /\ dcall.queried <=> known
            /\ known =>
                  dcall.target = IF dcall.deviceMap[dcall.id].mig
                                 THEN dcall.deviceMap[dcall.id].physicalID
                                 ELSE dcall.id

\* CheckHealth of a MIG partition answered false: the query of its physical GPU, a
\* different ID, ran without error but printed only blanks.
C19_Witness ==
    /\ "deviceMap" \in DOMAIN dcall
    /\ dcall.id \in DOMAIN dcall.deviceMap
    /\ dcall.deviceMap[dcall.id].mig
    /\ dcall.target # dcall.id
    /\ ~dcall.toolErr
    /\ dcall.out = <<" ", " ">>
    /\ ~dcall.healthy

\* The decimal numeral of n, as the spec writes it: no sign, no leading zero.
RECURSIVE Numeral(_)
Numeral(n) ==
    IF n < Base THEN <<DigitChars[n + 1]>>
    ELSE Numeral(n \div Base) \o <<DigitChars[(n % Base) + 1]>>

RECURSIVE Pow(_, _)
Pow(b, e) == IF e = 0 THEN 1 ELSE b * Pow(b, e - 1)

MaxSize == Pow(Base, MaxDigits) - 1

Numerals == [n \in 0..MaxSize |-> Numeral(n)]

ProfileCallMade == "profile" \in DOMAIN dcall

\* C20: the memory requirement of a profile is the decimal number of its second
\* dot-separated token, suffix "g" or "gb" removed, times 1024: "3g.20gb" gives 20480,
\* "1g.5g" gives 5120, "Xg.<n>gb" and "Xg.<n>g" give n*1024 for every n of at most
\* MaxDigits digits; a profile without a second token, or whose size is not a plain
\* number (empty, signed, or with another suffix), gives 0.
C20_ProfileMemoryReq ==
    ProfileCallMade =>
        /\ dcall.profile = <<"3", "g", ".", "2", "0", "g", "b">> => dcall.memMB = 20480
        /\ dcall.profile = <<"1", "g", ".", "5", "g">> => dcall.memMB = 5120
        /\ (dcall.ntok = 2 /\ dcall.sign = <<>> /\ dcall.suffix \in {<<"g">>, <<"g", "b">>})
              => \A n \in 0..MaxSize :
                    dcall.profile = SubSeq(dcall.profile, 1, 2) \o <<".">>
                                        \o Numerals[n] \o dcall.suffix
                        => dcall.memMB = n * 1024
        /\ dcall.ntok = 1 => dcall.memMB = 0
        /\ (dcall.ntok > 1 /\ (dcall.sign # <<>> \/ dcall.digits = <<>>
                               \/ dcall.suffix \notin {<<>>, <<"g">>, <<"g", "b">>}))
              => dcall.memMB = 0

\* The profile "1g.5g" was evaluated to 5120 MB.
C20_Witness ==
    /\ ProfileCallMade
    /\ dcall.profile = <<"1", "g", ".", "5", "g">>
    /\ dcall.memMB = 5120

PlanCallMade == "planProfile" \in DOMAIN dcall

\* The memory requirement of a profile in MB, as the spec states it.
RequirementMB(profile) ==
    IF profile = P1g10gb THEN 10240
    ELSE IF profile \in {P3g20gb, P2g20gb} THEN 20480 ELSE 0

\* C21: for a profile with a memory requirement r, maxInstances is the floor of
\* totalMemory / r; the GPU is skipped when that is zero; otherwise the count to create
\* is min(N, maxInstances) for a configured N > 0 and maxInstances for N <= 0.
\* 20480 MB with "3g.20gb" gives 1, 81920 MB with "1g.10gb" gives 8.
C21_InstanceCountFromMemory ==
    (PlanCallMade /\ RequirementMB(dcall.planProfile) > 0) =>
        LET r == RequirementMB(dcall.planProfile)
            max == dcall.maxInstances
            N == dcall.instanceCount
        IN  /\ max * r <= dcall.totalMemory
            /\ dcall.totalMemory < (max + 1) * r
            /\ max = 0 => (dcall.skip /\ dcall.createCount = 0)
            /\ max > 0 =>
                  /\ ~dcall.skip
                  /\ N > 0 => dcall.createCount = IF N < max THEN N ELSE max
                  /\ N <= 0 => dcall.createCount = max
            /\ (dcall.totalMemory = 20480 /\ dcall.planProfile = P3g20gb) => max = 1
            /\ (dcall.totalMemory = 81920 /\ dcall.planProfile = P1g10gb) => max = 8

\* The plan for 81920 MB and "1g.10gb" with no configured count creates 8 instances.
C21_Witness ==
    /\ PlanCallMade
    /\ dcall.totalMemory = 81920
    /\ dcall.planProfile = P1g10gb
    /\ dcall.instanceCount = 0
    /\ dcall.createCount = 8

PassDone == mig # NoMIG /\ mig.passes # "none"

\* The positions in the call log of the last pass of the calls cmd made while GPU g
\* was being visited.
CallsOf(g, cmd) ==
    {i \in 1..Len(mig.calls) : mig.calls[i].visit = g /\ mig.calls[i].cmd = cmd}

\* C25: reconciliation is idempotent: for every initial layout and configuration, a
\* second pass leaves the partition layout the first pass left (the tool carrying out
\* every command it is given).
C25_ReconcileIdempotent ==
    [][(mig # NoMIG /\ mig.passes = "once" /\ mig'.passes = "twice"
          /\ mig.tool.failAt = NoFault)
          => mig'.gpus = mig.gpus]_vars

\* Idempotence where the count of getMIGDeviceCount is positive exactly for a GPU
\* that has instances: the answers that carry a "GPU Instance ID" header line.
C25_IdempotentWithHeader ==
    [][(mig # NoMIG /\ mig.passes = "once" /\ mig'.passes = "twice"
          /\ mig.tool.failAt = NoFault /\ mig.tool.lgi \in {"list", "table"})
          => mig'.gpus = mig.gpus]_vars

\* C26: a pass issues exactly one creation call for each GPU it (re)configures, and
\* the instances it requests for the GPU are as many as the effective count.
C26_OneCreationCallPerGPU ==
    PassDone => \A g \in GPUs : Cardinality(CallsOf(g, "cgi")) <= 1

\* C27: after a step of a GPU has failed, the pass makes no further call for that GPU,
\* and it visits every listed GPU.
C27_FailureSkipsRestOfGPU ==
    PassDone =>
        /\ \A i, j \in 1..Len(mig.calls) :
              (i < j /\ mig.calls[i].visit = mig.calls[j].visit
                     /\ mig.calls[i].visit \in GPUs)
                  => mig.calls[i].ok
        /\ (\E i \in 1..Len(mig.calls) : mig.calls[i].cmd = "list" /\ mig.calls[i].ok)
              => \A g \in GPUs : CallsOf(g, "mode") # {}

\* The positions in the call log of the last pass of the calls cmd that reach GPU g:
\* those that name g after "-i", and those that name no GPU.
CallsReaching(g, cmd) ==
    {i \in 1..Len(mig.calls) :
        mig.calls[i].cmd = cmd /\ mig.calls[i].gpu \in {g, AllGPUs}}

\* C28: when a GPU with existing partitions is reconfigured (the skip flag off, the
\* tool carrying out every command), its compute instances are destroyed first, its
\* GPU instances second, and every creation call that reaches the GPU comes after
\* both destroy calls: none before them, none between them.
C28_DestroyBeforeCreate ==
    (PassDone /\ ~mig.cfg.skipConfigured /\ mig.tool.failAt = NoFault) =>
        \A g \in GPUs :
            mig.before[g].gi > 0 =>
                /\ \A i \in CallsReaching(g, "dci") :
                      \E j \in CallsReaching(g, "dgi") : j = i + 1
                /\ \A j \in CallsReaching(g, "dgi") :
                      \E i \in CallsReaching(g, "dci") : j = i + 1
                /\ \A c \in CallsReaching(g, "cgi") :
                      /\ \E i \in CallsReaching(g, "dci") : i < c
                      /\ \E j \in CallsReaching(g, "dgi") : j < c

\* Within the visit of one GPU the order is the stated one: "-dci" is followed at once
\* by "-dgi", and the creation calls of the visit come after both.
C28_OrderWithinVisit ==
    PassDone =>
        \A g \in GPUs :
            /\ \A i \in CallsOf(g, "dci") : \E j \in CallsOf(g, "dgi") : j = i + 1
            /\ \A j \in CallsOf(g, "dgi") : \E i \in CallsOf(g, "dci") : j = i + 1
            /\ \A c \in CallsOf(g, "cgi") :
                  \A d \in CallsOf(g, "dci") \cup CallsOf(g, "dgi") : d < c

\* C29: with the skip flag set, a GPU that already has a partition is left as it was:
\* the pass makes no destroy and no creation call that reaches it.
C29_SkipLeavesConfiguredGPU ==
    (PassDone /\ mig.passes = "once" /\ mig.cfg.skipConfigured) =>
        \A g \in GPUs : mig.before[g].gi > 0 => mig.gpus[g] = mig.before[g]

PushBuilt == "deviceList" \in DOMAIN dcall

\* C30: a push holds exactly the devices of its discovery result, in discovery order,
\* each Healthy if and only if CheckHealth answered true for it in this push, whatever
\* states were remembered from the push before.
C30_PushIsDiscoveryWithHealth ==
    PushBuilt =>
        /\ Len(dcall.deviceList) = Len(dcall.devices)
        /\ \A i \in 1..Len(dcall.devices) :
              /\ dcall.deviceList[i].ID = dcall.devices[i]
              /\ dcall.deviceList[i].Health \in {"Healthy", "Unhealthy"}
              /\ dcall.deviceList[i].Health = "Healthy"
                    <=> dcall.devices[i] \in dcall.healthyNow

\* A device remembered as Unhealthy answered the health check and was pushed Healthy,
\* listed after a device that did not answer.
C30_Witness ==
    /\ PushBuilt
    /\ Len(dcall.devices) >= 2
    /\ dcall.devices[2] \in DOMAIN dcall.last
    /\ dcall.last[dcall.devices[2]] = "Unhealthy"
    /\ dcall.deviceList[2].Health = "Healthy"
    /\ dcall.deviceList[1].Health = "Unhealthy"
    /\ dcall.devices[1] > dcall.devices[2]

\* A step in which watch w starts a discovery + push: it connects, or it takes a tick
\* or a health signal.
StartsPush(w) ==
    /\ watch'[w].pc = "update"
    /\ \/ watch[w].pc # "update"
       \/ watch[w].tick /\ ~watch'[w].tick
       \/ Len(healthChan') < Len(healthChan)

\* C22: the pushes of one watch are sequential: a discovery + push step starts only
\* when the one before it has completed or has faulted the watch, never while one is
\* in progress.
C22_PushesSequential ==
    [][\A w \in DOMAIN watch : StartsPush(w) => watch[w].pc \in {"init", "wait"}]_vars

\* A push started by a tick is in progress while the next tick and a health signal
\* are already waiting.
C22_Witness ==
    \E w \in DOMAIN watch :
        /\ watch[w].pc = "update"
        /\ watch[w].trigger = "tick"
        /\ watch[w].tick
        /\ healthChan # <<>>

\* Two tasks are about to touch the same field, one of them writing, with no lock that
\* both hold: nothing orders the two accesses.
Unordered(t, u) ==
    /\ t # u
    /\ NextOp(t).kind \in {"read", "write", "cache"}
    /\ NextOp(u).kind \in {"read", "write", "cache"}
    /\ NextOp(t).obj = NextOp(u).obj
    /\ "write" \in {NextOp(t).kind, NextOp(u).kind}
    /\ LocksHeld(t) \cap LocksHeld(u) = {}

\* C23: the tasks share mutable state only under a lock: in no interleaving are two
\* tasks about to read and write, or write and write, the same field without a lock
\* held by both.
C23_NoUnlockedSharing ==
    sync # NoSync => \A t, u \in Tasks : ~Unordered(t, u)

\* C24: no lock is held while an external-tool or network call is in progress.
C24_NoLockAcrossCall ==
    sync # NoSync => \A t \in Tasks : InCall(t) => LocksHeld(t) = {}

LivenessCallMade == "livenessOf" \in DOMAIN dcall

\* C31: isPodActive(id) is true exactly when the workload that id denotes is found, is
\* not pending deletion and is running or pending; an empty id, a workload that is not
\* found and a succeeded, failed or terminating workload give false.
C31_ActiveIffWorkloadLive ==
    LivenessCallMade =>
        (dcall.active <=> /\ dcall.livenessOf # ""
                          /\ dcall.cluster[dcall.livenessOf] \in {"Running", "Pending"})

\* What the code does instead: the answer follows the outcome of the Get of the empty
\* key, for any non-empty id.
C31_ActiveIffEmptyKeyLookupLive ==
    LivenessCallMade =>
        (dcall.active <=> /\ dcall.livenessOf # ""
                          /\ dcall.lookup \in {"Running", "Pending"})

\* C32: two Allocate requests in flight together that name the same device never both
\* succeed, whatever the interleaving of their availability checks, reclaims and
\* allocator calls (no Deallocate is made outside the two requests).
C32_ConcurrentRequestsNeverBothSucceed ==
    \A h1, h2 \in DOMAIN handler :
        (h1 # h2 /\ handler[h1].pc = "ok" /\ handler[h2].pc = "ok") =>
            handler[h1].committed \cap handler[h2].committed = {}

\* The owners the liveness check reported active during the pass in progress: the
\* owners of the snapshot entries that were not marked for release.
ReportedActive ==
    {recycler.snapshot[d] : d \in DOMAIN recycler.snapshot \ recycler.toRelease}

\* C33: the Deallocate of a Recycler pass never removes a binding that was made after
\* the pass took its snapshot and whose owner the liveness check reported active in
\* that pass, whatever Allocate requests run in between.
C33_ReleaseSparesReboundLiveOwner ==
    [][(recycler.pc = "release" /\ recycler'.pc = "wait") =>
          \A d \in allocated \ allocated' :
              ~(/\ deviceToPod[d] # recycler.snapshot[d]
                /\ deviceToPod[d] \in ReportedActive)]_vars

\* C34: in every reachable allocator state the keys of the allocated set are the keys
\* of the device-to-owner map, so GetAllocatedDevices and GetAllocationMap name the
\* same devices.
C34_AllocatedKeysAreOwnerKeys ==
    GetAllocatedDevices(allocated) = DOMAIN GetAllocationMap(deviceToPod)

\* C35: a device that an earlier Allocate request bound with the empty owner token, and
\* that nothing has released since, is refused to the next request that names it: that
\* request fails at the device.
C35_EmptyOwnerBindingIsKept ==
    [][\A h \in DOMAIN handler :
          (/\ handler[h].pc = "owner"
           /\ handler'[h].pc # "owner"
           /\ handler[h].ids[handler[h].di] \in allocated \cap DOMAIN deviceToPod
           /\ deviceToPod[handler[h].ids[handler[h].di]] = ""
           /\ handler[h].ids[handler[h].di] \notin handler[h].committed)
          => handler'[h].pc = "failed"]_vars

\* C36: an Allocate request binds only device IDs of the most recent discovery set
\* (s.deviceMap, as the last push left it): a request naming any other ID binds
\* nothing.
C36_AllocateBindsDiscoveredOnly ==
    [][\A d \in allocated' \ allocated : d \in server.deviceMap]_vars

\* C37: the health-check task decides to signal a device only in a round where the
\* health it checked differs from the health it checked for that device the round
\* before; a device that stays unhealthy is signalled once.
C37_SignalOnlyOnChange ==
    [][(hc.pc \in {"scan", "query"} /\ hc'.pc = "send"
        /\ hc.devices[hc.idx] \in DOMAIN dcall.checked)
          => dcall'.checked[hc.devices[hc.idx]] # dcall.checked[hc.devices[hc.idx]]]_vars

\* C38: a DiscoverGPUs call that returns a discovery error leaves the catalog as it
\* was: the cached list, the time of the last discovery and the device map are those
\* of before the call, so CheckHealth answers for every known device as before.
C38_FailedDiscoveryChangesNothing ==
    [][(dcall'.seq # dcall.seq /\ dcall'.err # ErrNone) =>
          /\ catalog'.devices = catalog.devices
          /\ catalog'.devicesNil = catalog.devicesNil
          /\ catalog'.sinceDiscovery = catalog.sinceDiscovery
          /\ catalog'.deviceMap = catalog.deviceMap
          /\ \A d \in catalog.deviceMap :
                CheckHealth(catalog', hw', d) = CheckHealth(catalog, hw, d)]_vars

\* C39: the steps a pass runs for GPU g change the partitions of g only: from any
\* layout the node is in when a pass may run, visiting g leaves the GPU instances and
\* compute instances of every other GPU as they were.
C39_VisitTouchesOwnGPUOnly ==
    (/\ mig # NoMIG
     /\ mig.cfg.enabled
     /\ mig.tool.support = "supported"
     /\ ~Fails(mig.tool, AllGPUs, "list")) =>
        \A g \in GPUs :
            \A h \in GPUs \ {g} :
                /\ VisitGPU(mig.cfg, mig.tool, mig.gpus, g).gpus[h].gi = mig.gpus[h].gi
                /\ VisitGPU(mig.cfg, mig.tool, mig.gpus, g).gpus[h].ci = mig.gpus[h].ci

====
